---- MODULE Spec2Model ----
(***************************************************************************)
(* Model of backend/sync_dolt.py: the JSON -> Dolt synchronisation engine. *)
(*                                                                         *)
(* Two specifications share this module.                                   *)
(*   SpecResolve  the pure functions compute_hash / get_old_timestamps /   *)
(*                resolve_timestamp applied to inputs drawn from bounded   *)
(*                sets, for two devices at once.                           *)
(*   Spec         sync runs of main(): the schema ensurer, the category    *)
(*                normalizers, SqlBatch.flush, save_hashes and the dolt    *)
(*                commit, with JSON edits between runs.                    *)
(***************************************************************************)
EXTENDS Integers, Sequences, FiniteSets, TLC

VARIABLES
    probe,        \* SpecResolve: inputs and results of resolve_timestamp
    json,         \* data/*.json: file name -> sequence of entities
    hashesFile,   \* data/hashes.json: category -> (identity -> entry)
    schema,       \* live Dolt schema: tables, columns, nullability
    db,           \* Dolt working set: table name -> sequence of rows
    commits,      \* number of dolt commits made so far
    run,          \* the run in progress (locals of main) or the last one
    sent,         \* mutating SQL sent to `dolt sql` by the current run
    runs,         \* number of runs started
    edits         \* number of JSON edits made

vars == <<probe, json, hashesFile, schema, db, commits, run, sent, runs, edits>>

runVars == <<json, hashesFile, schema, db, commits, run, sent, runs, edits>>

(***************************************************************************)
(* Python values that cross a conversion: None, int n, the decimal text of *)
(* n (a CSV field or a str), and the empty string.                         *)
(***************************************************************************)
PyNone == [t |-> "none", v |-> 0]

PyInt(n) == [t |-> "int", v |-> n]

PyStr(n) == [t |-> "str", v |-> n]

PyEmpty == [t |-> "empty", v |-> 0]

\* Python truthiness: None, 0 and "" are falsy; the text "0" is truthy.
Truthy(x) ==
    CASE x.t = "none"  -> FALSE
      [] x.t = "empty" -> FALSE
      [] x.t = "int"   -> x.v # 0
      [] OTHER         -> TRUE

\* int(ts) as applied to the resolved timestamp.
IntOf(x) == x.v

\* A SQL NULL hash, and the absence of a "hash" key in a hashes.json entry.
NoHash == [none |-> TRUE]

\* One field of a `dolt sql -r csv` result row: NULL comes back as "".
CsvInt(x) == IF x.t = "none" THEN PyEmpty ELSE PyStr(x.v)

\* escape_sql(ts) followed by the BIGINT column's coercion of the literal.
escape_sql_ts(x) ==
    CASE x.t = "none"  -> PyNone
      [] x.t = "empty" -> PyInt(0)
      [] OTHER         -> PyInt(x.v)

(***************************************************************************)
(* Entities are functions from field names to values; a missing field is a *)
(* field outside the domain.                                               *)
(***************************************************************************)
Get(e, k, default) == IF k \in DOMAIN e THEN e[k] ELSE default

\* A JSON object nested in an entity is a sequence of [key, value] pairs in
\* document order (a Python dict keeps insertion order).  The fields of the
\* model's documents that hold one:
MapFields == {"reward", "basic_stats"}

\* The keys of the model's JSON objects in code-point order, as
\* json.dumps(sort_keys=True) and sorted() compare them.
KeyOrder ==
    <<"", "ATK", "Def", "Gem", "Gold", "Unobtainium",
      "data_hash", "hp", "last_updated", "name", "reward">>

KeyRank(k) == CHOOSE i \in 1..Len(KeyOrder) : KeyOrder[i] = k

\* A nested object as json.dumps(sort_keys=True) writes it: pairs by key.
RECURSIVE SortedByKey(_)
SortedByKey(pairs) ==
    IF pairs = <<>> THEN <<>>
    ELSE LET least == CHOOSE i \in 1..Len(pairs) :
                        \A j \in 1..Len(pairs) :
                           \/ KeyRank(pairs[i].key) < KeyRank(pairs[j].key)
                           \/ pairs[i].key = pairs[j].key /\ i <= j
         IN <<pairs[least]>>
            \o SortedByKey([j \in 1..(Len(pairs) - 1) |->
                               IF j < least THEN pairs[j] ELSE pairs[j + 1]])

\* compute_hash: the digest of the entity without last_updated / data_hash.
\* json.dumps(sort_keys=True) is injective on the cleaned mapping and
\* SHA-256 is taken as collision free, so the digest is modelled by the
\* cleaned mapping itself, nested objects in key order.
compute_hash(entity) ==
    [k \in DOMAIN entity \ {"last_updated", "data_hash"} |->
        IF k \in MapFields THEN SortedByKey(entity[k]) ELSE entity[k]]

\* get_old_timestamps: rows of a table keyed by natural key; a later row with
\* the same key replaces an earlier one, rows with an empty key are dropped,
\* and a failing SELECT (missing table or column) gives {}.
RECURSIVE old_ts_of(_, _)
old_ts_of(rows, acc) ==
    IF rows = <<>> THEN acc
    ELSE LET row == Head(rows)
             nxt == IF row.name # ""
                      THEN [k \in DOMAIN acc \cup {row.name} |->
                              IF k = row.name
                                THEN <<CsvInt(row.last_updated), row.data_hash>>
                                ELSE acc[k]]
                      ELSE acc
         IN old_ts_of(Tail(rows), nxt)

get_old_timestamps(tableExists, rows) ==
    IF tableExists THEN old_ts_of(rows, <<>>) ELSE <<>>

\* resolve_timestamp with hashes.json consulted after the local database.
resolve_timestamp_db_first(key, new_hash, old_timestamps, now, table_hashes) ==
    IF key \in DOMAIN old_timestamps
         /\ old_timestamps[key][2] = new_hash
         /\ Truthy(old_timestamps[key][1])
      THEN old_timestamps[key][1]
    ELSE IF key \in DOMAIN table_hashes
         /\ table_hashes[key].isdict
         /\ table_hashes[key].hash = new_hash
         /\ Truthy(table_hashes[key].ts)
      THEN table_hashes[key].ts
    ELSE PyInt(now)

\* resolve_timestamp that trusts the hashes.json entry without comparing hashes.
resolve_timestamp_no_hash_check(key, new_hash, old_timestamps, now, table_hashes) ==
    IF key \in DOMAIN table_hashes
         /\ table_hashes[key].isdict
         /\ Truthy(table_hashes[key].ts)
      THEN table_hashes[key].ts
    ELSE IF key \in DOMAIN old_timestamps
         /\ old_timestamps[key][2] = new_hash
         /\ Truthy(old_timestamps[key][1])
      THEN old_timestamps[key][1]
    ELSE PyInt(now)

\* resolve_timestamp that stamps every entity with now.
resolve_timestamp_always_now(key, new_hash, old_timestamps, now, table_hashes) ==
    PyInt(now)

\* resolve_timestamp: hashes.json first, then the local Dolt DB, then now.
resolve_timestamp(key, new_hash, old_timestamps, now, table_hashes) ==
    IF key \in DOMAIN table_hashes
         /\ table_hashes[key].isdict
         /\ table_hashes[key].hash = new_hash
         /\ Truthy(table_hashes[key].ts)
      THEN table_hashes[key].ts
    ELSE IF key \in DOMAIN old_timestamps
         /\ old_timestamps[key][2] = new_hash
         /\ Truthy(old_timestamps[key][1])
      THEN old_timestamps[key][1]
    ELSE PyInt(now)

(***************************************************************************)
(* SpecResolve: resolve_timestamp on two devices that share the key, the   *)
(* freshly computed hash and hashes.json but differ in their local Dolt    *)
(* table and in their clock.                                               *)
(***************************************************************************)
MaxProbeRows == 2

ProbeKey == "zeta"

ProbeHash == compute_hash([name |-> "zeta", description |-> "d0", last_updated |-> 7])

OtherHash == compute_hash([name |-> "zeta", description |-> "d1"])

ProbeRows ==
    {[name |-> ProbeKey, last_updated |-> lu, data_hash |-> h] :
        lu \in {PyNone, PyInt(0), PyInt(3)}, h \in {NoHash, ProbeHash, OtherHash}}
    \cup {[name |-> "", last_updated |-> PyInt(3), data_hash |-> ProbeHash],
          [name |-> "Wild Spirit", last_updated |-> PyInt(3), data_hash |-> ProbeHash]}

SeqsUpTo(S, n) == UNION {[1..m -> S] : m \in 0..n}

\* A device's table: missing (the SELECT raises SyncError) or a list of rows.
ProbeTables(n) ==
    {[exists |-> FALSE, rows |-> <<>>]}
    \cup {[exists |-> TRUE, rows |-> r] : r \in SeqsUpTo(ProbeRows, n)}

\* hashes.json entries: a legacy non-dict entry, or a dict whose hash / ts may
\* be missing (None) or zero.
ProbeEntries ==
    {[isdict |-> FALSE, hash |-> ProbeHash, ts |-> PyNone]}
    \cup {[isdict |-> TRUE, hash |-> h, ts |-> ts] :
            h \in {NoHash, ProbeHash, OtherHash},
            ts \in {PyNone, PyInt(0), PyInt(3), PyInt(4)}}

ProbeStores ==
    {<<>>} \cup {[k \in {ProbeKey} |-> e] : e \in ProbeEntries}

ProbeIdle ==
    [done |-> TRUE, key |-> ProbeKey, hash |-> ProbeHash,
     tableA |-> [exists |-> FALSE, rows |-> <<>>],
     tableB |-> [exists |-> FALSE, rows |-> <<>>],
     nowA |-> 1, nowB |-> 1, store |-> <<>>,
     outA |-> PyNone, outB |-> PyNone]

InitProbe ==
    \E ta \in ProbeTables(MaxProbeRows), tb \in ProbeTables(1),
       st \in ProbeStores, n \in {3, 5} :
        probe = [done |-> FALSE, key |-> ProbeKey, hash |-> ProbeHash,
                 tableA |-> ta, tableB |-> tb,
                 nowA |-> n, nowB |-> n + 1, store |-> st,
                 outA |-> PyNone, outB |-> PyNone]

\* Both devices resolve the timestamp of the same entity.
Resolve ==
    /\ ~probe.done
    /\ probe' = [probe EXCEPT
          !.done = TRUE,
          !.outA = resolve_timestamp(probe.key, probe.hash,
                      get_old_timestamps(probe.tableA.exists, probe.tableA.rows),
                      probe.nowA, probe.store),
          !.outB = resolve_timestamp(probe.key, probe.hash,
                      get_old_timestamps(probe.tableB.exists, probe.tableB.rows),
                      probe.nowB, probe.store)]
    /\ UNCHANGED runVars

\* What the tiers of resolve_timestamp see for the probed key.
ProbeTier1 ==
    /\ probe.key \in DOMAIN probe.store
    /\ probe.store[probe.key].isdict
    /\ probe.store[probe.key].hash = probe.hash
    /\ Truthy(probe.store[probe.key].ts)

RECURSIVE LastRowOf(_, _)
LastRowOf(rows, key) ==
    IF rows = <<>> THEN [found |-> FALSE, last_updated |-> PyNone, data_hash |-> NoHash]
    ELSE LET n == Len(rows)
         IN IF rows[n].name = key
              THEN [found |-> TRUE, last_updated |-> rows[n].last_updated,
                    data_hash |-> rows[n].data_hash]
              ELSE LastRowOf(SubSeq(rows, 1, n - 1), key)

ProbeRowA == IF probe.tableA.exists THEN LastRowOf(probe.tableA.rows, probe.key)
             ELSE LastRowOf(<<>>, probe.key)

ProbeTier2 ==
    /\ ProbeRowA.found
    /\ ProbeRowA.data_hash = probe.hash
    /\ ProbeRowA.last_updated.t # "none"

(***************************************************************************)
(* Sort Key Registry (backend/sort_keys.py).                               *)
(***************************************************************************)
QUALITY_ORDER == <<"UR", "SSR EX", "SSR+", "SSR", "SR", "R", "N", "C">>

CLASS_ORDER == <<"Guardian", "Priest", "Assassin", "Warrior", "Archer", "Mage">>

FACTION_ORDER == <<"Elemental Echo", "Wild Spirit", "Arcane Wisdom",
                   "Sanctum Glory", "Otherworld Return", "Illusion Veil">>

RESOURCE_CATEGORY_ORDER == <<"Currency", "Gift", "Item", "Material", "Summoning", "Shard">>

GEAR_TYPE_ORDER == <<"Headgear", "Chestplate", "Bracers", "Boots", "Weapon", "Accessory">>

FALLBACK == 999

\* X_RANK.get(v, _FALLBACK): the index of v in the priority list, from 0.
RankIn(order, v) ==
    IF \E i \in 1..Len(order) : order[i] = v
      THEN (CHOOSE i \in 1..Len(order) : order[i] = v) - 1
      ELSE FALLBACK

\* str.lower() and str.strip() on the strings of the model.
Lower(s) ==
    CASE s = "Elemental Echo" -> "elemental echo"
      [] s = "Wild Spirit"    -> "wild spirit"
      [] s = "Aria"           -> "aria"
      [] s = "Bram"           -> "bram"
      [] s = "Gold"           -> "gold"
      [] s = "Gem"            -> "gem"
      [] s = "Nova"           -> "nova"
      [] s = "Blade"          -> "blade"
      [] s = "Rune"           -> "rune"
      [] s = "Fang"           -> "fang"
      [] s = "Helm"           -> "helm"
      [] s = "Sun"            -> "sun"
      [] s = "Moon"           -> "moon"
      [] s = "ATK"            -> "atk"
      [] s = "Def"            -> "def"
      [] OTHER                -> s

\* The lower-cased strings of the model in Python's string order.
LowerOrder ==
    <<"", "aria", "atk", "blade", "bram", "def", "elemental echo", "fang", "gem",
      "gold", "helm", "hp", "moon", "nova", "rune", "sun", "wild spirit">>

StrRank(s) == CHOOSE i \in 1..Len(LowerOrder) : LowerOrder[i] = s

\* Tuple comparison, as Python compares sort keys.
RECURSIVE LexLess(_, _)
LexLess(a, b) ==
    IF a = <<>> \/ b = <<>> THEN FALSE
    ELSE IF Head(a) # Head(b) THEN Head(a) < Head(b)
    ELSE LexLess(Tail(a), Tail(b))

\* sorted(data, key=...): stable, ascending; keys[i] is key(data[i]).
Sorted(data, keys) ==
    LET n == Len(data)
        pos(i) == 1 + Cardinality({j \in 1..n :
                        \/ LexLess(keys[j], keys[i])
                        \/ keys[j] = keys[i] /\ j < i})
    IN [p \in 1..n |-> data[CHOOSE i \in 1..n : pos(i) = p]]

faction_sort_key(f) ==
    <<RankIn(FACTION_ORDER, Get(f, "name", "")), StrRank(Lower(Get(f, "name", "")))>>

character_sort_key(c) ==
    <<RankIn(CLASS_ORDER, Get(c, "character_class", "")),
      RankIn(QUALITY_ORDER, Get(c, "quality", "")),
      StrRank(Lower(Get(c, "name", "")))>>

resource_sort_key(r) ==
    <<RankIn(RESOURCE_CATEGORY_ORDER, Get(r, "category", "")),
      RankIn(QUALITY_ORDER, Get(r, "quality", "")),
      StrRank(Lower(Get(r, "name", "")))>>

subclass_sort_key(sc) ==
    <<RankIn(CLASS_ORDER, Get(sc, "class", "")), Get(sc, "tier", 0),
      StrRank(Lower(Get(sc, "name", "")))>>

howlkin_sort_key(h) ==
    <<RankIn(QUALITY_ORDER, Get(h, "quality", "")), StrRank(Lower(Get(h, "name", "")))>>

gear_sort_key(g) ==
    <<RankIn(GEAR_TYPE_ORDER, Get(g, "type", "")),
      RankIn(QUALITY_ORDER, Get(g, "quality", "")),
      StrRank(Lower(Get(g, "name", "")))>>

gear_set_sort_key(gs) == <<StrRank(Lower(Get(gs, "name", "")))>>

(***************************************************************************)
(* Mappings (Python dicts) and SQL statements.                             *)
(***************************************************************************)
Put(m, k, v) == [x \in DOMAIN m \cup {k} |-> IF x = k THEN v ELSE m[x]]

Lookup(m, k, default) == IF k \in DOMAIN m THEN m[k] ELSE default

\* new_hashes written alone, without the stored entries.
MergeOverwrite(a, b) == b

\* {**a, **b}
Merge(a, b) == [k \in DOMAIN a \cup DOMAIN b |-> IF k \in DOMAIN b THEN b[k] ELSE a[k]]

NoRow == [id |-> 0]

Delete(table) == [op |-> "DELETE", table |-> table, row |-> NoRow]

AutoInc(table) == [op |-> "AUTO_INCREMENT", table |-> table, row |-> NoRow]

Insert(table, row) == [op |-> "INSERT", table |-> table, row |-> row]

Update(table) == [op |-> "UPDATE", table |-> table, row |-> NoRow]

\* The hashes.json entry a normalizer records: {"hash": h, "ts": int(ts)}.
HashEntry(h, ts) == [isdict |-> TRUE, hash |-> h, ts |-> PyInt(IntOf(ts))]

\* A parent row as the INSERT stores it.
ParentRow(id, name, ts, h) ==
    [id |-> id, name |-> name, last_updated |-> escape_sql_ts(ts), data_hash |-> h]

(***************************************************************************)
(* Entity Normalizers.  Each returns the statements it adds to the batch,  *)
(* the hashes.json entries it records for its category, the number of      *)
(* warnings it prints and the error it raises ("" when it returns).        *)
(***************************************************************************)
NonEmpty(names) == SelectSeq(names, LAMBDA a : a # "")

\* A normalizer loop that processes every entity, with or without an identity.
SkippedNever(e, field) == FALSE

\* if not e.get(field): continue -- the identity is missing, null or empty.
Skipped(e, field) == Get(e, field, "") = ""

\* The child inserts of one faction: one row per recommended artifact.
ArtifactInserts(i, names) ==
    [k \in 1..Len(names) |->
        Insert("faction_recommended_artifacts",
               [faction_id |-> i, sort_order |-> k, artifact_name |-> names[k]])]

UnknownArtifacts(names, known) ==
    IF known = {} THEN 0
    ELSE Cardinality({k \in 1..Len(names) : names[k] \notin known})

\* The loop of sync_factions over the sorted data; ids are enumerate() indexes.
RECURSIVE factions_loop(_, _, _, _)
factions_loop(data, i, ctx, acc) ==
    IF i > Len(data) THEN acc
    ELSE LET f == data[i]
             name == Get(f, "name", "")
         IN IF Skipped(f, "name") THEN factions_loop(data, i + 1, ctx, acc)
            ELSE LET h == compute_hash(f)
                     ts == resolve_timestamp(name, h, ctx.old_ts, ctx.now, ctx.table_hashes)
                     arts == NonEmpty(Get(f, "recommended_artifacts", <<>>))
                 IN factions_loop(data, i + 1, ctx,
                      [batch |-> acc.batch
                                   \o <<Insert("factions", ParentRow(i, name, ts, h))>>
                                   \o ArtifactInserts(i, arts),
                       hashes |-> Put(acc.hashes, name, HashEntry(h, ts)),
                       warnings |-> acc.warnings + UnknownArtifacts(arts, ctx.known)])

\* {f.get("name"): i for i, f in enumerate(data, 1) if f.get("name")}
RECURSIVE enumerate_ids(_, _, _)
enumerate_ids(data, i, acc) ==
    IF i > Len(data) THEN acc
    ELSE enumerate_ids(data, i + 1,
            IF Get(data[i], "name", "") # "" THEN Put(acc, data[i].name, i) ELSE acc)

\* {row["name"]: int(row["id"]) for row in rows if row["name"] and row["id"]}
RECURSIVE row_ids(_, _)
row_ids(rows, acc) ==
    IF rows = <<>> THEN acc
    ELSE row_ids(Tail(rows),
            IF Head(rows).name # "" THEN Put(acc, Head(rows).name, Head(rows).id) ELSE acc)

\* The character_factions rows of one character.
RECURSIVE faction_links(_, _, _, _)
faction_links(character_id, names, order, faction_ids) ==
    IF order > Len(names) THEN <<>>
    ELSE LET fid == Lookup(faction_ids, names[order], 0)
         IN (IF fid # 0
               THEN <<Insert("character_factions",
                        [character_id |-> character_id, faction_id |-> fid,
                         sort_order |-> order])>>
               ELSE <<>>)
            \o faction_links(character_id, names, order + 1, faction_ids)

\* The relinking loop of sync_factions (--target factions only).
RECURSIVE relink_loop(_, _, _, _)
relink_loop(chars, i, character_ids, faction_ids) ==
    IF i > Len(chars) THEN <<>>
    ELSE LET c == chars[i]
             cid == Lookup(character_ids, Get(c, "name", ""), 0)
         IN (IF Get(c, "name", "") = "" \/ cid = 0 THEN <<>>
             ELSE faction_links(cid, Get(c, "factions", <<>>), 1, faction_ids))
            \o relink_loop(chars, i + 1, character_ids, faction_ids)

sync_factions(data, artifacts, now, stored_hashes, relink, characters_data, store) ==
    LET ctx == [old_ts |-> get_old_timestamps(TRUE, store.factions),
                now |-> now,
                table_hashes |-> Lookup(stored_hashes, "factions", <<>>),
                known |-> {Get(artifacts[k], "name", "") : k \in 1..Len(artifacts)} \ {""}]
        sorted == Sorted(data, [i \in 1..Len(data) |-> faction_sort_key(data[i])])
        head == <<Delete("faction_recommended_artifacts"),
                  AutoInc("faction_recommended_artifacts"),
                  Delete("character_factions"),
                  Delete("factions")>>
        acc == factions_loop(sorted, 1, ctx,
                             [batch |-> head, hashes |-> <<>>, warnings |-> 0])
        links == IF relink
                   THEN relink_loop(Sorted(characters_data,
                                           [i \in 1..Len(characters_data) |->
                                              character_sort_key(characters_data[i])]), 1,
                                    row_ids(store.characters, <<>>),
                                    enumerate_ids(sorted, 1, <<>>))
                   ELSE <<>>
    IN [batch |-> acc.batch \o links, category |-> "factions", hashes |-> acc.hashes,
        warnings |-> acc.warnings, error |-> ""]

\* The skills rows of one character; a skill without a name is skipped.
RECURSIVE skill_inserts(_, _, _, _)
skill_inserts(char_id, skills, k, skill_id) ==
    IF k > Len(skills) THEN <<>>
    ELSE IF skills[k] = "" THEN skill_inserts(char_id, skills, k + 1, skill_id)
    ELSE <<Insert("skills", [id |-> skill_id + 1, character_id |-> char_id,
                             name |-> skills[k]])>>
         \o skill_inserts(char_id, skills, k + 1, skill_id + 1)

\* build_subclass_maps: ids in subclass_sort_key order, nameless and repeated
\* names skipped; each name's class beside its id.  (The names of the model
\* carry no surrounding whitespace, so strip() leaves them as they are.)
RECURSIVE subclass_map_loop(_, _, _, _)
subclass_map_loop(data, i, sid, maps) ==
    IF i > Len(data) THEN maps
    ELSE LET name == Get(data[i], "name", "")
         IN IF name = "" \/ name \in DOMAIN maps.ids
              THEN subclass_map_loop(data, i + 1, sid, maps)
              ELSE subclass_map_loop(data, i + 1, sid + 1,
                     [ids |-> Put(maps.ids, name, sid + 1),
                      classes |-> Put(maps.classes, name, Get(data[i], "class", ""))])

build_subclass_maps(subclasses) ==
    subclass_map_loop(Sorted(subclasses, [i \in 1..Len(subclasses) |->
                                            subclass_sort_key(subclasses[i])]),
                      1, 0, [ids |-> <<>>, classes |-> <<>>])

\* subclass_links that leaves out a subclass name that is not in subclass_ids.
RECURSIVE subclass_links_skipping(_, _, _, _, _)
subclass_links_skipping(char_id, names, k, subclass_id, ctx) ==
    IF k > Len(names) THEN <<>>
    ELSE IF names[k] = "" \/ names[k] \notin DOMAIN ctx.subclass_ids
      THEN subclass_links_skipping(char_id, names, k + 1, subclass_id, ctx)
    ELSE <<Insert("character_subclasses",
                  [id |-> subclass_id + 1, character_id |-> char_id,
                   subclass_id |-> PyInt(ctx.subclass_ids[names[k]]),
                   subclass_name |-> names[k]])>>
         \o subclass_links_skipping(char_id, names, k + 1, subclass_id + 1, ctx)

\* The character_subclasses rows of one character: one row per non-empty
\* subclass name, with subclass_id NULL when the name is not in subclass_ids.
RECURSIVE subclass_links(_, _, _, _, _)
subclass_links(char_id, names, k, subclass_id, ctx) ==
    IF k > Len(names) THEN <<>>
    ELSE IF names[k] = "" THEN subclass_links(char_id, names, k + 1, subclass_id, ctx)
    ELSE LET linked == Lookup(ctx.subclass_ids, names[k], 0)
             row == IF ctx.has_subclass_id_column
                      THEN [id |-> subclass_id + 1, character_id |-> char_id,
                            subclass_id |-> IF linked = 0 THEN PyNone ELSE PyInt(linked),
                            subclass_name |-> names[k]]
                      ELSE [id |-> subclass_id + 1, character_id |-> char_id,
                            subclass_name |-> names[k]]
         IN <<Insert("character_subclasses", row)>>
            \o subclass_links(char_id, names, k + 1, subclass_id + 1, ctx)

\* The warnings one character's subclass names print: one for a subclass that
\* belongs to another class, one for a subclass that is not in subclass_ids.
SubclassWarnings(c, ctx) ==
    LET names == Get(c, "subclasses", <<>>)
        named == {k \in 1..Len(names) : names[k] # ""}
    IN Cardinality({k \in named :
                      /\ Lookup(ctx.subclass_classes, names[k], "") # ""
                      /\ ctx.subclass_classes[names[k]] # Get(c, "character_class", "")})
       + Cardinality({k \in named : names[k] \notin DOMAIN ctx.subclass_ids})

\* The loop of sync_characters; ids are counters that skip nameless entities.
RECURSIVE characters_loop(_, _, _, _)
characters_loop(data, i, ctx, acc) ==
    IF i > Len(data) THEN acc
    ELSE LET c == data[i]
             name == Get(c, "name", "")
         IN IF Skipped(c, "name") THEN characters_loop(data, i + 1, ctx, acc)
            ELSE LET char_id == acc.char_id + 1
                     h == compute_hash(c)
                     ts == resolve_timestamp(name, h, ctx.old_ts, ctx.now, ctx.table_hashes)
                     skills == skill_inserts(char_id, Get(c, "skills", <<>>), 1, acc.skill_id)
                     subs == subclass_links(char_id, Get(c, "subclasses", <<>>), 1,
                                            acc.subclass_id, ctx)
                 IN characters_loop(data, i + 1, ctx,
                      [batch |-> acc.batch
                                   \o <<Insert("characters", ParentRow(char_id, name, ts, h))>>
                                   \o subs
                                   \o faction_links(char_id, Get(c, "factions", <<>>), 1,
                                                    ctx.faction_ids)
                                   \o skills,
                       hashes |-> Put(acc.hashes, name, HashEntry(h, ts)),
                       char_id |-> char_id,
                       subclass_id |-> acc.subclass_id + Len(subs),
                       skill_id |-> acc.skill_id + Len(skills),
                       warnings |-> acc.warnings + SubclassWarnings(c, ctx)])

\* faction_ids of sync_characters: positions in factions.json as loaded.
faction_ids_of(factions) == enumerate_ids(factions, 1, <<>>)

sync_characters(data, factions, now, stored_hashes, store, subclass_maps, has_subclass_id_column) ==
    LET ctx == [old_ts |-> get_old_timestamps(TRUE, store.characters),
                now |-> now,
                table_hashes |-> Lookup(stored_hashes, "characters", <<>>),
                faction_ids |-> faction_ids_of(factions),
                subclass_ids |-> subclass_maps.ids,
                subclass_classes |-> subclass_maps.classes,
                has_subclass_id_column |-> has_subclass_id_column]
        head == <<Delete("skills"), Delete("talent_levels"), Delete("character_subclasses"),
                  Delete("character_factions"), Delete("characters"),
                  AutoInc("skills"), AutoInc("talent_levels"),
                  AutoInc("character_subclasses"), AutoInc("characters")>>
        acc == characters_loop(Sorted(data, [i \in 1..Len(data) |->
                                               character_sort_key(data[i])]), 1, ctx,
                  [batch |-> head, hashes |-> <<>>, char_id |-> 0, subclass_id |-> 0,
                   skill_id |-> 0, warnings |-> 0])
    IN [batch |-> acc.batch, category |-> "characters", hashes |-> acc.hashes,
        warnings |-> acc.warnings, error |-> ""]

\* build_resource_id_map: ids in resource_sort_key order, nameless and repeated
\* names skipped.
RECURSIVE resource_map_loop(_, _, _, _)
resource_map_loop(data, i, rid, mapping) ==
    IF i > Len(data) THEN mapping
    ELSE LET name == Get(data[i], "name", "")
         IN IF name = "" \/ name \in DOMAIN mapping
              THEN resource_map_loop(data, i + 1, rid, mapping)
              ELSE resource_map_loop(data, i + 1, rid + 1, Put(mapping, name, rid + 1))

build_resource_id_map(resources) ==
    resource_map_loop(Sorted(resources, [i \in 1..Len(resources) |->
                                            resource_sort_key(resources[i])]),
                      1, 0, <<>>)

\* The loop of sync_resources.
RECURSIVE resources_loop(_, _, _, _)
resources_loop(data, i, ctx, acc) ==
    IF i > Len(data) THEN acc
    ELSE LET r == data[i]
             name == Get(r, "name", "")
         IN IF Skipped(r, "name") THEN resources_loop(data, i + 1, ctx, acc)
            ELSE LET h == compute_hash(r)
                     ts == resolve_timestamp(name, h, ctx.old_ts, ctx.now, ctx.table_hashes)
                     row == [id |-> acc.r_id + 1, name |-> name,
                             last_updated |-> escape_sql_ts(ts), data_hash |-> h,
                             quality_null |-> FALSE]
                 IN resources_loop(data, i + 1, ctx,
                      [batch |-> acc.batch \o <<Insert("resources", row)>>,
                       hashes |-> Put(acc.hashes, name, HashEntry(h, ts)),
                       r_id |-> acc.r_id + 1])

Returned(category) ==
    [batch |-> <<>>, category |-> category, hashes |-> <<>>, warnings |-> 0, error |-> ""]

sync_resources(data, existing_tables, crCols, now, stored_hashes, rebuild, store) ==
    IF "resources" \notin existing_tables THEN Returned("resources")
    ELSE
    LET ctx == [old_ts |-> get_old_timestamps(TRUE, store.resources),
                now |-> now,
                table_hashes |-> Lookup(stored_hashes, "resources", <<>>)]
        head == (IF "code_rewards" \in existing_tables /\ "resource_id" \in crCols
                   THEN <<Delete("code_rewards"), AutoInc("code_rewards")>>
                   ELSE <<>>)
                \o <<Delete("resources"), AutoInc("resources")>>
        acc == resources_loop(Sorted(data, [i \in 1..Len(data) |->
                                              resource_sort_key(data[i])]), 1, ctx,
                              [batch |-> head, hashes |-> <<>>, r_id |-> 0])
        \* The code_rewards rebuild of --target resources calls
        \* sorted(codes_data, key=code_sort_key); code_sort_key is not imported
        \* by sync_dolt.py, so reaching the call raises NameError.
        reaches == /\ rebuild
                   /\ "codes" \in existing_tables
                   /\ "code_rewards" \in existing_tables
                   /\ "resource_id" \in crCols
    IN [batch |-> acc.batch, category |-> "resources", hashes |-> acc.hashes,
        warnings |-> 0, error |-> IF reaches THEN "NameError" ELSE ""]

\* rewards as a dict: {r["name"]: r.get("quantity", 0) for r in rewards_raw if r.get("name")}
RECURSIVE rewards_dict(_, _)
rewards_dict(raw, acc) ==
    IF raw = <<>> THEN acc
    ELSE LET r == Head(raw)
         IN rewards_dict(Tail(raw),
              IF r.name = "" THEN acc
              ELSE IF \E k \in 1..Len(acc) : acc[k].name = r.name
                THEN [k \in 1..Len(acc) |-> IF acc[k].name = r.name THEN r ELSE acc[k]]
                ELSE Append(acc, r))

\* rewards_raw = c.get("rewards") or c.get("reward"): a list goes through the
\* dict comprehension, a dict is iterated as it is, in document order.
rewards_of(c) ==
    IF Get(c, "rewards", <<>>) # <<>> THEN rewards_dict(c.rewards, <<>>)
    ELSE LET raw == Get(c, "reward", <<>>)
         IN [k \in 1..Len(raw) |-> [name |-> raw[k].key, quantity |-> raw[k].value]]

\* The reward loop of one code: code_rewards inserts, or the SyncError raised
\* for a reward whose resource is not in resources.json.
RECURSIVE rewards_loop(_, _, _, _)
rewards_loop(rewards, k, ctx, acc) ==
    IF k > Len(rewards) \/ ~ctx.has_code_rewards \/ acc.error # "" THEN acc
    ELSE LET name == rewards[k].name
             rid == Lookup(ctx.resource_ids, name, 0)
         IN IF name = "" THEN rewards_loop(rewards, k + 1, ctx, acc)
            ELSE IF rid = 0 \/ ~ctx.has_resource_id
              THEN [acc EXCEPT !.error = "SyncError", !.reward_id = @ + 1]
              ELSE rewards_loop(rewards, k + 1, ctx,
                     [acc EXCEPT
                        !.reward_id = @ + 1,
                        !.batch = @ \o <<Insert("code_rewards",
                             [id |-> acc.reward_id + 1, code_id |-> ctx.c_id,
                              resource_id |-> PyInt(rid), quantity |-> rewards[k].quantity,
                              resource_name |-> ""])>>])

\* The loop of sync_codes: file order, ids are counters.
RECURSIVE codes_loop(_, _, _, _)
codes_loop(data, i, ctx, acc) ==
    IF i > Len(data) \/ acc.error # "" THEN acc
    ELSE LET c == data[i]
             code == Get(c, "code", "")
         IN IF Skipped(c, "code") THEN codes_loop(data, i + 1, ctx, acc)
            ELSE LET c_id == acc.c_id + 1
                     h == compute_hash(c)
                     ts == resolve_timestamp(code, h, ctx.old_ts, ctx.now, ctx.table_hashes)
                     inner == rewards_loop(rewards_of(c), 1,
                                 [ctx EXCEPT !.c_id = c_id],
                                 [batch |-> acc.batch
                                              \o <<Insert("codes", ParentRow(c_id, code, ts, h))>>,
                                  reward_id |-> acc.reward_id, error |-> ""])
                 IN codes_loop(data, i + 1, ctx,
                      [batch |-> inner.batch,
                       hashes |-> Put(acc.hashes, code, HashEntry(h, ts)),
                       c_id |-> c_id, reward_id |-> inner.reward_id,
                       error |-> inner.error])

\* sync_codes that drops a reward whose resource is unknown instead of raising.
sync_codes_soft(data, existing_tables, crCols, resource_ids, now, stored_hashes, store) ==
    IF "codes" \notin existing_tables THEN Returned("codes")
    ELSE
    LET has_code_rewards == "code_rewards" \in existing_tables
        known(c) == [c EXCEPT !.rewards =
                        SelectSeq(c.rewards, LAMBDA r : r.name \in DOMAIN resource_ids)]
        ctx == [old_ts |-> get_old_timestamps(TRUE, store.codes),
                now |-> now,
                table_hashes |-> Lookup(stored_hashes, "codes", <<>>),
                resource_ids |-> resource_ids,
                has_code_rewards |-> has_code_rewards,
                has_resource_id |-> has_code_rewards /\ "resource_id" \in crCols,
                c_id |-> 0]
        head == (IF has_code_rewards
                   THEN <<Delete("code_rewards"), AutoInc("code_rewards")>> ELSE <<>>)
                \o <<Delete("codes"), AutoInc("codes")>>
        acc == codes_loop([i \in 1..Len(data) |->
                              IF "rewards" \in DOMAIN data[i] THEN known(data[i]) ELSE data[i]],
                          1, ctx,
                          [batch |-> head, hashes |-> <<>>, c_id |-> 0, reward_id |-> 0,
                           error |-> ""])
    IN [batch |-> acc.batch, category |-> "codes", hashes |-> acc.hashes,
        warnings |-> 0, error |-> acc.error]

sync_codes(data, existing_tables, crCols, resource_ids, now, stored_hashes, store) ==
    IF "codes" \notin existing_tables THEN Returned("codes")
    ELSE
    LET has_code_rewards == "code_rewards" \in existing_tables
        ctx == [old_ts |-> get_old_timestamps(TRUE, store.codes),
                now |-> now,
                table_hashes |-> Lookup(stored_hashes, "codes", <<>>),
                resource_ids |-> resource_ids,
                has_code_rewards |-> has_code_rewards,
                has_resource_id |-> has_code_rewards /\ "resource_id" \in crCols,
                c_id |-> 0]
        head == (IF has_code_rewards
                   THEN <<Delete("code_rewards"), AutoInc("code_rewards")>> ELSE <<>>)
                \o <<Delete("codes"), AutoInc("codes")>>
        acc == codes_loop(data, 1, ctx,
                          [batch |-> head, hashes |-> <<>>, c_id |-> 0, reward_id |-> 0,
                           error |-> ""])
    IN [batch |-> acc.batch, category |-> "codes", hashes |-> acc.hashes,
        warnings |-> 0, error |-> acc.error]

\* The child rows of one subclass: its class link, then one row per bonus.
RECURSIVE bonus_inserts(_, _, _, _)
bonus_inserts(subclass_id, bonuses, k, bonus_id) ==
    IF k > Len(bonuses) THEN <<>>
    ELSE IF bonuses[k] = "" THEN bonus_inserts(subclass_id, bonuses, k + 1, bonus_id)
    ELSE <<Insert("subclass_bonuses",
                  [id |-> bonus_id + 1, subclass_id |-> subclass_id, sort_order |-> k,
                   bonus_text |-> bonuses[k]])>>
         \o bonus_inserts(subclass_id, bonuses, k + 1, bonus_id + 1)

\* The loop of sync_subclasses.
RECURSIVE subclasses_loop(_, _, _, _)
subclasses_loop(data, i, ctx, acc) ==
    IF i > Len(data) THEN acc
    ELSE LET sc == data[i]
             name == Get(sc, "name", "")
         IN IF Skipped(sc, "name") THEN subclasses_loop(data, i + 1, ctx, acc)
            ELSE LET subclass_id == acc.subclass_id + 1
                     h == compute_hash(sc)
                     ts == resolve_timestamp(name, h, ctx.old_ts, ctx.now, ctx.table_hashes)
                     class == Get(sc, "class", "")
                     link == IF class = "" THEN <<>>
                             ELSE <<Insert("subclass_character_classes",
                                      [id |-> acc.link_id + 1, subclass_id |-> subclass_id,
                                       character_class |-> class, sort_order |-> 1])>>
                     bonuses == bonus_inserts(subclass_id, Get(sc, "bonuses", <<>>), 1,
                                              acc.bonus_id)
                 IN subclasses_loop(data, i + 1, ctx,
                      [batch |-> acc.batch
                                   \o <<Insert("subclasses", ParentRow(subclass_id, name, ts, h))>>
                                   \o link \o bonuses,
                       hashes |-> Put(acc.hashes, name, HashEntry(h, ts)),
                       subclass_id |-> subclass_id,
                       link_id |-> acc.link_id + Len(link),
                       bonus_id |-> acc.bonus_id + Len(bonuses)])

sync_subclasses(data, now, stored_hashes, store) ==
    LET ctx == [old_ts |-> get_old_timestamps(TRUE, store.subclasses),
                now |-> now,
                table_hashes |-> Lookup(stored_hashes, "subclasses", <<>>)]
        head == <<Update("character_subclasses"),
                  Delete("subclass_character_classes"), Delete("subclass_bonuses"),
                  Delete("subclasses"),
                  AutoInc("subclass_character_classes"), AutoInc("subclass_bonuses"),
                  AutoInc("subclasses")>>
        acc == subclasses_loop(Sorted(data, [i \in 1..Len(data) |->
                                               subclass_sort_key(data[i])]), 1, ctx,
                  [batch |-> head, hashes |-> <<>>, subclass_id |-> 0, link_id |-> 0,
                   bonus_id |-> 0])
    IN [batch |-> acc.batch \o <<Update("character_subclasses")>>,
        category |-> "subclasses", hashes |-> acc.hashes, warnings |-> 0, error |-> ""]

\* sorted(basic_stats.items(), key=lambda item: str(item[0]).lower())
StatsSorted(stats) ==
    Sorted(stats, [k \in 1..Len(stats) |-> <<StrRank(Lower(stats[k].key))>>])

\* The howlkin_stats rows of one howlkin: one per key with a name.
RECURSIVE stat_inserts(_, _, _, _)
stat_inserts(h_id, stats, k, stat_id) ==
    IF k > Len(stats) THEN <<>>
    ELSE IF stats[k].key = "" THEN stat_inserts(h_id, stats, k + 1, stat_id)
    ELSE <<Insert("howlkin_stats",
                  [id |-> stat_id + 1, howlkin_id |-> h_id, stat_name |-> stats[k].key,
                   stat_value |-> stats[k].value])>>
         \o stat_inserts(h_id, stats, k + 1, stat_id + 1)

\* The howlkin_passive_effects rows of one howlkin; sort_order counts from 0.
RECURSIVE effect_inserts(_, _, _, _)
effect_inserts(h_id, effects, k, effect_id) ==
    IF k > Len(effects) THEN <<>>
    ELSE IF effects[k] = "" THEN effect_inserts(h_id, effects, k + 1, effect_id)
    ELSE <<Insert("howlkin_passive_effects",
                  [id |-> effect_id + 1, howlkin_id |-> h_id, sort_order |-> k - 1,
                   effect |-> effects[k]])>>
         \o effect_inserts(h_id, effects, k + 1, effect_id + 1)

\* The loop of sync_howlkins.
RECURSIVE howlkins_loop(_, _, _, _)
howlkins_loop(data, i, ctx, acc) ==
    IF i > Len(data) THEN acc
    ELSE LET h == data[i]
             name == Get(h, "name", "")
         IN IF Skipped(h, "name") THEN howlkins_loop(data, i + 1, ctx, acc)
            ELSE LET h_id == acc.h_id + 1
                     h_hash == compute_hash(h)
                     ts == resolve_timestamp(name, h_hash, ctx.old_ts, ctx.now,
                                             ctx.table_hashes)
                     effects == effect_inserts(h_id, Get(h, "passive_effects", <<>>), 1,
                                               acc.effect_id)
                     stats == stat_inserts(h_id, StatsSorted(Get(h, "basic_stats", <<>>)), 1,
                                           acc.stat_id)
                 IN howlkins_loop(data, i + 1, ctx,
                      [batch |-> acc.batch
                                   \o <<Insert("howlkins", ParentRow(h_id, name, ts, h_hash))>>
                                   \o effects \o stats,
                       hashes |-> Put(acc.hashes, name, HashEntry(h_hash, ts)),
                       h_id |-> h_id,
                       effect_id |-> acc.effect_id + Len(effects),
                       stat_id |-> acc.stat_id + Len(stats)])

sync_howlkins(data, now, stored_hashes, store) ==
    LET ctx == [old_ts |-> get_old_timestamps(TRUE, store.howlkins),
                now |-> now,
                table_hashes |-> Lookup(stored_hashes, "howlkins", <<>>)]
        head == <<Delete("howlkin_passive_effects"), Delete("howlkin_stats"),
                  Delete("howlkins"),
                  AutoInc("howlkin_passive_effects"), AutoInc("howlkin_stats"),
                  AutoInc("howlkins")>>
        acc == howlkins_loop(Sorted(data, [i \in 1..Len(data) |->
                                             howlkin_sort_key(data[i])]), 1, ctx,
                  [batch |-> head, hashes |-> <<>>, h_id |-> 0, effect_id |-> 0,
                   stat_id |-> 0])
    IN [batch |-> acc.batch, category |-> "howlkins", hashes |-> acc.hashes,
        warnings |-> 0, error |-> ""]

\* One entry of merged_sets: the name and the normalised set_bonus.
MergedSet(name, set_bonus) ==
    [name |-> name,
     set_bonus |-> [quantity |-> Get(set_bonus, "quantity", 0),
                    description |-> Get(set_bonus, "description", "")]]

\* merged_sets[name] = entry: a dict keeps the position of a key it already has.
PutSet(merged, entry) ==
    IF \E k \in 1..Len(merged) : merged[k].name = entry.name
      THEN [k \in 1..Len(merged) |-> IF merged[k].name = entry.name THEN entry ELSE merged[k]]
      ELSE Append(merged, entry)

\* merged_sets from gear_sets.json: a later entry of a name replaces an earlier.
RECURSIVE sets_from_file(_, _)
sets_from_file(gear_sets_data, merged) ==
    IF gear_sets_data = <<>> THEN merged
    ELSE LET gs == Head(gear_sets_data)
             name == Get(gs, "name", "")
         IN sets_from_file(Tail(gear_sets_data),
              IF name = "" THEN merged
              ELSE PutSet(merged, MergedSet(name, Get(gs, "set_bonus", <<>>))))

\* Backward compatibility: sets named only by gear.json items.
RECURSIVE sets_from_gear(_, _)
sets_from_gear(data, merged) ==
    IF data = <<>> THEN merged
    ELSE LET item == Head(data)
             set_name == Get(item, "set", "")
         IN sets_from_gear(Tail(data),
              IF set_name = "" \/ \E k \in 1..Len(merged) : merged[k].name = set_name
                THEN merged
                ELSE Append(merged, MergedSet(set_name, Get(item, "set_bonus", <<>>))))

\* The gear_sets loop of sync_gear.
RECURSIVE gear_sets_loop(_, _, _, _)
gear_sets_loop(sets, i, ctx, acc) ==
    IF i > Len(sets) THEN acc
    ELSE LET gear_set == sets[i]
             set_hash == compute_hash(gear_set)
             set_ts == resolve_timestamp(gear_set.name, set_hash, ctx.old_set_ts, ctx.now,
                                         ctx.set_hashes)
         IN gear_sets_loop(sets, i + 1, ctx,
              [acc EXCEPT
                 !.batch = @ \o <<Insert("gear_sets",
                                      ParentRow(acc.set_id + 1, gear_set.name, set_ts, set_hash))>>,
                 !.set_hashes = Put(@, gear_set.name, HashEntry(set_hash, set_ts)),
                 !.set_id = @ + 1,
                 !.set_id_by_name = Put(@, gear_set.name, acc.set_id + 1)])

\* The gear loop of sync_gear: set_id is NULL for an item without a set.
RECURSIVE gear_loop(_, _, _, _)
gear_loop(data, i, ctx, acc) ==
    IF i > Len(data) THEN acc
    ELSE LET item == data[i]
             name == Get(item, "name", "")
         IN IF Skipped(item, "name") THEN gear_loop(data, i + 1, ctx, acc)
            ELSE LET gear_hash_input == [k \in DOMAIN item \ {"set_bonus"} |-> item[k]]
                     h == compute_hash(gear_hash_input)
                     ts == resolve_timestamp(name, h, ctx.old_ts, ctx.now, ctx.table_hashes)
                     current_set_id == Lookup(acc.set_id_by_name, Get(item, "set", ""), 0)
                     row == [id |-> acc.gear_id + 1, name |-> name,
                             set_id |-> IF current_set_id = 0 THEN PyNone
                                        ELSE PyInt(current_set_id),
                             last_updated |-> escape_sql_ts(ts), data_hash |-> h]
                 IN gear_loop(data, i + 1, ctx,
                      [acc EXCEPT
                         !.batch = @ \o <<Insert("gear", row)>>,
                         !.hashes = Put(@, name, HashEntry(h, ts)),
                         !.gear_id = @ + 1])

\* sync_gear records two categories, gear_sets and gear; `sets` carries the
\* entries of the first.
sync_gear(data, gear_sets_data, now, stored_hashes, store) ==
    LET ctx == [old_ts |-> get_old_timestamps(TRUE, store.gear),
                old_set_ts |-> get_old_timestamps(TRUE, store.gear_sets),
                now |-> now,
                table_hashes |-> Lookup(stored_hashes, "gear", <<>>),
                set_hashes |-> Lookup(stored_hashes, "gear_sets", <<>>)]
        head == <<Delete("gear"), Delete("gear_sets"), AutoInc("gear"), AutoInc("gear_sets")>>
        merged_sets == sets_from_gear(data, sets_from_file(gear_sets_data, <<>>))
        sets == gear_sets_loop(Sorted(merged_sets, [i \in 1..Len(merged_sets) |->
                                                      gear_set_sort_key(merged_sets[i])]),
                               1, ctx,
                               [batch |-> head, hashes |-> <<>>, set_hashes |-> <<>>,
                                set_id |-> 0, set_id_by_name |-> <<>>, gear_id |-> 0])
        acc == gear_loop(Sorted(data, [i \in 1..Len(data) |-> gear_sort_key(data[i])]),
                         1, ctx, sets)
    IN [batch |-> acc.batch, category |-> "gear", hashes |-> acc.hashes,
        sets |-> acc.set_hashes, warnings |-> 0, error |-> ""]

(***************************************************************************)
(* Schema Evolution Ensurer.  The state threaded through the steps: the    *)
(* live schema and rows, the mutating statements sent so far, how many     *)
(* more `dolt sql` calls succeed (negative: all of them), whether a call   *)
(* has raised SyncError, and the local existing_tables set.                *)
(***************************************************************************)
\* dolt_sql that sends the statement even in a dry run.
SendAlways(st, dry, tag, newSchema, newDb) ==
    IF st.failed THEN st
    ELSE IF st.left = 0 THEN [st EXCEPT !.failed = TRUE]
    ELSE [st EXCEPT !.schema = newSchema, !.db = newDb,
                    !.sent = Append(@, tag), !.left = @ - 1]

\* dolt_sql(statement, dry_run): a dry run only prints the statement.
Send(st, dry, tag, newSchema, newDb) ==
    IF st.failed \/ dry THEN st
    ELSE IF st.left = 0 THEN [st EXCEPT !.failed = TRUE]
    ELSE [st EXCEPT !.schema = newSchema, !.db = newDb,
                    !.sent = Append(@, tag), !.left = @ - 1]

\* A dolt_sql_csv query that names a missing table or column raises SyncError.
Query(st, ok) == IF st.failed \/ ok THEN st ELSE [st EXCEPT !.failed = TRUE]

\* The SELECT COUNT(*) that looks for rows still depending on a legacy column:
\* a Query, noted with the number of statements sent before it.
CountQuery(st, ok, column) ==
    IF st.failed THEN st
    ELSE [Query(st, ok) EXCEPT !.asked = Append(@, [column |-> column, at |-> Len(st.sent)])]

\* CREATE TABLE resources when it is missing.
EnsureResourcesTable(st, dry) ==
    IF st.failed \/ "resources" \in st.local THEN st
    ELSE [Send(st, dry, "CREATE TABLE resources",
               [st.schema EXCEPT !.tables = @ \cup {"resources"}], st.db)
            EXCEPT !.local = @ \cup {"resources"}]

\* UPDATE resources SET quality = '' WHERE quality IS NULL
ClearNullQuality(rows) ==
    [k \in 1..Len(rows) |-> [rows[k] EXCEPT !.quality_null = FALSE]]

\* Migrate resources.quality to NOT NULL when it is nullable.
EnsureResourceQuality(st, dry) ==
    IF st.failed \/ "resources" \notin st.local THEN st
    ELSE LET q == Query(st, "resources" \in st.schema.tables)
         IN IF q.failed \/ ~q.schema.qualityNullable THEN q
            ELSE LET u == Send(q, dry, "UPDATE resources SET quality",
                               q.schema,
                               [q.db EXCEPT !.resources = ClearNullQuality(@)])
                 IN Send(u, dry, "ALTER TABLE resources MODIFY quality",
                         [u.schema EXCEPT !.qualityNullable = FALSE], u.db)

\* ALTER TABLE howlkins DROP COLUMN for one legacy column that DESCRIBE listed.
DropHowlkinColumn(st, dry, columns, legacy_col) ==
    IF st.failed \/ legacy_col \notin columns THEN st
    ELSE IF legacy_col = "passive_effect"
      THEN Send(st, dry, "ALTER TABLE howlkins DROP COLUMN passive_effect",
                [st.schema EXCEPT !.howlkinCols = @ \ {legacy_col}], st.db)
      ELSE Send(st, dry, "ALTER TABLE howlkins DROP COLUMN passive_effects",
                [st.schema EXCEPT !.howlkinCols = @ \ {legacy_col}], st.db)

\* CREATE TABLE howlkins when it is missing; otherwise drop its legacy columns.
EnsureHowlkins(st, dry) ==
    IF st.failed THEN st
    ELSE IF "howlkins" \notin st.local
      THEN [Send(st, dry, "CREATE TABLE howlkins",
                 [st.schema EXCEPT !.tables = @ \cup {"howlkins"}], st.db)
              EXCEPT !.local = @ \cup {"howlkins"}]
      ELSE LET columns == st.schema.howlkinCols
           IN DropHowlkinColumn(DropHowlkinColumn(st, dry, columns, "passive_effect"),
                                dry, columns, "passive_effects")

\* ALTER TABLE code_rewards ADD COLUMN resource_id (and its key).
EnsureResourceIdColumn(st, dry) ==
    IF st.failed \/ "resource_id" \in st.cols THEN st
    ELSE LET a == Send(st, dry, "ALTER TABLE code_rewards ADD COLUMN resource_id",
                       [st.schema EXCEPT !.crCols = @ \cup {"resource_id"}], st.db)
         IN Send(a, dry, "ALTER TABLE code_rewards ADD KEY resource_id", a.schema, a.db)

\* UPDATE code_rewards JOIN resources ON name SET resource_id WHERE resource_id IS NULL
Backfill(rewards, resources) ==
    [k \in 1..Len(rewards) |->
        IF rewards[k].resource_id = PyNone
             /\ \E j \in 1..Len(resources) : resources[j].name = rewards[k].resource_name
          THEN [rewards[k] EXCEPT !.resource_id =
                  PyInt(resources[CHOOSE j \in 1..Len(resources) :
                                    resources[j].name = rewards[k].resource_name].id)]
          ELSE rewards[k]]

\* SELECT COUNT(*) ... WHERE resource_id IS NULL AND resource_name <> ''
Unresolved(rewards) ==
    Cardinality({k \in 1..Len(rewards) :
                    rewards[k].resource_id = PyNone /\ rewards[k].resource_name # ""})

\* A backfill that drops the legacy column whatever the count of unresolved rows.
EnsureLegacyBackfillUngated(st, dry) ==
    IF st.failed \/ "resource_name" \notin st.cols THEN st
    ELSE LET b == Send(st, dry, "UPDATE code_rewards SET resource_id",
                       st.schema,
                       [st.db EXCEPT !.code_rewards = Backfill(@, st.db.resources)])
             q == CountQuery(b, "resource_id" \in b.schema.crCols, "resource_name")
         IN IF q.failed THEN q
            ELSE Send(q, dry, "ALTER TABLE code_rewards DROP COLUMN resource_name",
                      [q.schema EXCEPT !.crCols = @ \ {"resource_name"}], q.db)

\* Backfill resource_id from the legacy resource_name column, then drop the
\* legacy column once no row still depends on it.
EnsureLegacyBackfill(st, dry) ==
    IF st.failed \/ "resource_name" \notin st.cols THEN st
    ELSE LET b == Send(st, dry, "UPDATE code_rewards SET resource_id",
                       st.schema,
                       [st.db EXCEPT !.code_rewards = Backfill(@, st.db.resources)])
             q == CountQuery(b, "resource_id" \in b.schema.crCols, "resource_name")
         IN IF q.failed THEN q
            ELSE IF Unresolved(q.db.code_rewards) = 0
              THEN Send(q, dry, "ALTER TABLE code_rewards DROP COLUMN resource_name",
                        [q.schema EXCEPT !.crCols = @ \ {"resource_name"}], q.db)
              ELSE [q EXCEPT !.warnings = @ + 1]

\* The foreign key added without looking at SHOW CREATE TABLE.
EnsureRewardForeignKeyUnchecked(st, dry) ==
    IF st.failed THEN st
    ELSE Send(st, dry, "ALTER TABLE code_rewards ADD CONSTRAINT code_rewards_ibfk_2",
              [st.schema EXCEPT !.crFk = TRUE], st.db)

\* Add the code_rewards.resource_id foreign key when SHOW CREATE TABLE lacks it.
EnsureRewardForeignKey(st, dry) ==
    IF st.failed \/ st.schema.crFk THEN st
    ELSE Send(st, dry, "ALTER TABLE code_rewards ADD CONSTRAINT code_rewards_ibfk_2",
              [st.schema EXCEPT !.crFk = TRUE], st.db)

ensure_schema_extensions(schema0, db0, dry, budget) ==
    LET st0 == [schema |-> schema0, db |-> db0, sent |-> <<>>, left |-> budget,
                failed |-> FALSE, local |-> schema0.tables, cols |-> schema0.crCols,
                warnings |-> 0, asked |-> <<>>]
        st1 == EnsureHowlkins(
                 EnsureResourceQuality(EnsureResourcesTable(st0, dry), dry), dry)
    IN IF st1.failed \/ "code_rewards" \notin st1.local THEN st1
       ELSE EnsureRewardForeignKey(
              EnsureLegacyBackfill(EnsureResourceIdColumn(st1, dry), dry), dry)

(***************************************************************************)
(* The relational store: applying a flushed batch to the working set.      *)
(***************************************************************************)
ApplyStatement(store, stmt) ==
    CASE stmt.op = "DELETE" -> [store EXCEPT ![stmt.table] = <<>>]
      [] stmt.op = "INSERT" -> [store EXCEPT ![stmt.table] = Append(@, stmt.row)]
      [] OTHER              -> store

RECURSIVE ApplyBatch(_, _)
ApplyBatch(store, batch) ==
    IF batch = <<>> THEN store
    ELSE ApplyBatch(ApplyStatement(store, Head(batch)), Tail(batch))

(***************************************************************************)
(* The JSON documents of the model.                                        *)
(***************************************************************************)
FEcho == [name |-> "Elemental Echo", description |-> "d0"]

FWild == [name |-> "Wild Spirit", description |-> "d0",
          recommended_artifacts |-> <<"Orb", "Relic">>]

FWildEdited == [FWild EXCEPT !.description = "d1"]

FAnon == [description |-> "d0"]

CAria == [name |-> "Aria", character_class |-> "Mage", quality |-> "SSR",
          factions |-> <<"Wild Spirit", "Elemental Echo">>, skills |-> <<"Slash">>]

CAriaEdited == [CAria EXCEPT !.quality = "UR"]

CBram == [name |-> "Bram", character_class |-> "Guardian", quality |-> "SR",
          factions |-> <<"Wild Spirit">>, skills |-> <<>>]

RGold == [name |-> "Gold", category |-> "Currency", quality |-> "SSR"]

RGoldEdited == [RGold EXCEPT !.quality = "UR"]

RGem == [name |-> "Gem", category |-> "Item", quality |-> "SR"]

RAnon == [category |-> "Gift", quality |-> "R"]

KWelcome == [code |-> "WELCOME", rewards |-> <<[name |-> "Gold", quantity |-> 100]>>]

KWelcomeEdited == [code |-> "WELCOME", rewards |-> <<[name |-> "Gold", quantity |-> 200]>>]

KLost == [code |-> "LOST", rewards |-> <<[name |-> "Unobtainium", quantity |-> 5]>>]

KAnon == [rewards |-> <<[name |-> "Unobtainium", quantity |-> 5]>>]

Artifacts == <<[name |-> "Orb"]>>

MaxRuns == 2

MaxEdits == 1

MaxFactions == 2

FactionDocs == SeqsUpTo({FEcho, FWild, FAnon}, MaxFactions)

CharacterDocs == {<<>>, <<CAria>>, <<CAria, CBram>>}

ResourceDocs == {<<>>, <<RGold>>, <<RGold, RGem>>, <<RGem, RAnon, RGold>>}

CodeDocs == {<<>>, <<KWelcome>>, <<KLost>>, <<KAnon, KWelcome>>}

\* subclasses.json holds [] in these documents.
JsonDocs(f, c, r, k) ==
    [factions |-> f, characters |-> c, resources |-> r, codes |-> k,
     artifacts |-> Artifacts, subclasses |-> <<>>]

\* The documents the runs start from: one pair of files varies at a time.
JsonInputs ==
    {JsonDocs(f, c, <<RGold>>, <<KWelcome>>) : f \in FactionDocs, c \in CharacterDocs}
    \cup {JsonDocs(<<FEcho>>, <<>>, r, k) : r \in ResourceDocs, k \in CodeDocs}

\* A hand edit of one document: an entity's content changes, or an entity is
\* removed from the end of the file.
Edited(e) ==
    CASE e = FWild    -> FWildEdited
      [] e = CAria    -> CAriaEdited
      [] e = RGold    -> RGoldEdited
      [] e = KWelcome -> KWelcomeEdited
      [] OTHER        -> e

EditsOf(doc) ==
    {[doc EXCEPT ![i] = Edited(doc[i])] : i \in 1..Len(doc)}
    \cup (IF doc = <<>> THEN {} ELSE {SubSeq(doc, 1, Len(doc) - 1)})

Files == {"factions", "characters", "resources", "codes"}

(***************************************************************************)
(* Deployments: the Dolt database a run finds.                             *)
(***************************************************************************)
AllTables == {"factions", "faction_recommended_artifacts", "characters",
              "character_factions", "skills", "talent_levels",
              "character_subclasses", "resources", "codes", "code_rewards",
              "howlkins", "howlkin_stats", "howlkin_passive_effects",
              "subclasses", "subclass_character_classes", "subclass_bonuses",
              "gear", "gear_sets"}

EmptyStore == [t \in AllTables |-> <<>>]

ModernSchema == [tables |-> AllTables, crCols |-> {"resource_id"},
                 qualityNullable |-> FALSE, crFk |-> TRUE, howlkinCols |-> {}]

LegacySchema == [tables |-> AllTables, crCols |-> {"resource_name"},
                 qualityNullable |-> TRUE, crFk |-> FALSE,
                 howlkinCols |-> {"passive_effect"}]

LegacyStore(rewardName) ==
    [EmptyStore EXCEPT
       !.resources = <<[id |-> 1, name |-> "Gold", last_updated |-> PyNone,
                        data_hash |-> NoHash, quality_null |-> TRUE]>>,
       !.codes = <<[id |-> 1, name |-> "WELCOME", last_updated |-> PyNone,
                    data_hash |-> NoHash]>>,
       !.code_rewards = <<[id |-> 1, code_id |-> 1, resource_id |-> PyNone,
                           quantity |-> 100, resource_name |-> rewardName]>>]

Deployments ==
    {[schema |-> ModernSchema, db |-> EmptyStore],
     [schema |-> [ModernSchema EXCEPT !.tables = @ \ {"code_rewards"}], db |-> EmptyStore],
     [schema |-> [ModernSchema EXCEPT !.tables = @ \ {"resources"}], db |-> EmptyStore],
     [schema |-> LegacySchema, db |-> LegacyStore("Gold")],
     [schema |-> LegacySchema, db |-> LegacyStore("Lost")]}

(***************************************************************************)
(* main(): one sync run, step by step.                                     *)
(***************************************************************************)
Targets == {"all", "factions", "characters", "resources", "codes"}

\* The syncers a target runs, in the order of the syncers dict.
SyncersOf(target) ==
    IF target = "all" THEN <<"factions", "characters", "resources", "codes">>
    ELSE <<target>>

\* json_deps: the files a target loads; a file not loaded reads as [].
json_deps(target) ==
    CASE target = "all"        -> {"factions", "artifacts", "characters", "resources", "codes",
                                   "subclasses", "howlkins", "gear", "gear_sets"}
      [] target = "factions"   -> {"factions", "artifacts", "characters"}
      [] target = "characters" -> {"characters", "factions", "subclasses"}
      [] target = "resources"  -> {"resources", "codes"}
      [] target = "subclasses" -> {"subclasses"}
      [] target = "howlkins"   -> {"howlkins"}
      [] target = "gear"       -> {"gear", "gear_sets"}
      [] OTHER                 -> {"codes", "resources"}

json_cache(target, file) == IF file \in json_deps(target) THEN json[file] ELSE <<>>

\* What the run found when it started, and the rows the schema ensurer left:
\* kept to compare a finished run against.
Snapshot ==
    [db0 |-> db, schema0 |-> schema, hashes0 |-> hashesFile, commits0 |-> commits,
     db1 |-> db]

NoSnapshot ==
    [db0 |-> <<>>, schema0 |-> <<>>, hashes0 |-> <<>>,
     commits0 |-> [n |-> 0, head |-> <<>>, pushed |-> 0], db1 |-> <<>>]

\* The last run of main() did not complete a sync (none ran, or it was a dry
\* run or failed).
NoPrevious == [target |-> "", edits |-> 0]

NoRun(pc, exit, target, dry, snap, error) ==
    [pc |-> pc, exit |-> exit, target |-> target, dry |-> dry, now |-> 0,
     stored |-> <<>>, new_hashes |-> <<>>, batch |-> <<>>, todo |-> <<>>,
     existing |-> {}, resource_ids |-> <<>>, warnings |-> 0,
     snap |-> snap, error |-> error, prev |-> NoPrevious]

\* sys.exit(1), or the traceback of an uncaught exception: the run is over.
Failed(at, kind) == NoRun("failed", 1, run.target, run.dry, run.snap, <<at, kind>>)

\* main() returns.
Done == NoRun("done", 0, run.target, run.dry, run.snap, <<"", "">>)

Between == run.pc \in {"idle", "done", "failed"}

Init ==
    /\ probe = ProbeIdle
    /\ json \in JsonInputs
    /\ \E d \in Deployments :
         /\ (d.schema # ModernSchema => json.factions = <<FEcho>>)
         /\ schema = d.schema
         /\ db = d.db
         /\ commits = [n |-> 0, head |-> [schema |-> d.schema, db |-> d.db], pushed |-> 0]
    /\ hashesFile = <<>>
    /\ run = NoRun("idle", 0, "all", FALSE, NoSnapshot, <<"", "">>)
    /\ sent = <<>>
    /\ runs = 0
    /\ edits = 0

\* A hand edit of one JSON document between two runs.
EditJson ==
    /\ Between
    /\ edits < MaxEdits
    /\ \E f \in Files : \E d \in EditsOf(json[f]) :
         /\ d # json[f]
         /\ json' = [json EXCEPT ![f] = d]
    /\ edits' = edits + 1
    /\ UNCHANGED <<probe, hashesFile, schema, db, commits, run, sent, runs>>

\* main() up to the try block: parse the arguments, load the JSON documents
\* and hashes.json.
Start ==
    /\ Between
    /\ runs < MaxRuns
    /\ \E target \in Targets, dry \in BOOLEAN :
         run' = [NoRun("schema", 0, target, dry, Snapshot, <<"", "">>)
                   EXCEPT !.stored = hashesFile, !.prev = run.prev]
    /\ runs' = runs + 1
    /\ sent' = <<>>
    /\ UNCHANGED <<probe, json, hashesFile, schema, db, commits, edits>>

\* get_existing_tables, ensure_schema_extensions, the id maps, the batch and now.
EnsureSchema ==
    /\ run.pc = "schema"
    /\ \E budget \in {-1, 0, 1} :
         LET st == ensure_schema_extensions(schema, db, run.dry, budget)
         IN /\ (budget >= 0 => st.failed)
            /\ schema' = st.schema
            /\ db' = st.db
            /\ sent' = sent \o st.sent
            /\ run' = IF st.failed
                        THEN Failed("schema", "SyncError")
                        ELSE [run EXCEPT
                                !.pc = "sync",
                                !.snap.db1 = st.db,
                                !.existing = st.schema.tables,
                                !.resource_ids =
                                    build_resource_id_map(json_cache(run.target, "resources")),
                                !.now = runs,
                                !.warnings = st.warnings,
                                !.todo = SyncersOf(run.target)]
    /\ UNCHANGED <<probe, json, hashesFile, commits, runs, edits>>

\* What main() does with a normalizer's outcome: an exception ends the run
\* (SyncError is caught and exits 1, any other exception is a traceback).
AfterSyncer(out) ==
    /\ run' = IF out.error # ""
                THEN Failed("sync", out.error)
                ELSE [run EXCEPT
                        !.batch = @ \o out.batch,
                        !.new_hashes = IF out.hashes = <<>> THEN @
                                       ELSE Put(@, out.category, out.hashes),
                        !.warnings = @ + out.warnings,
                        !.todo = Tail(@),
                        !.pc = IF Len(run.todo) = 1 THEN "flush" ELSE "sync"]
    /\ UNCHANGED <<probe, json, hashesFile, schema, db, commits, sent, runs, edits>>

NextSyncer(name) == run.pc = "sync" /\ run.todo # <<>> /\ Head(run.todo) = name

SyncFactions ==
    /\ NextSyncer("factions")
    /\ AfterSyncer(sync_factions(json_cache(run.target, "factions"),
                                 json_cache(run.target, "artifacts"),
                                 run.now, run.stored, run.target = "factions",
                                 json_cache(run.target, "characters"), db))

SyncCharacters ==
    /\ NextSyncer("characters")
    /\ AfterSyncer(sync_characters(json_cache(run.target, "characters"),
                                   json_cache(run.target, "factions"),
                                   run.now, run.stored, db,
                                   build_subclass_maps(json_cache(run.target, "subclasses")),
                                   TRUE))

SyncResources ==
    /\ NextSyncer("resources")
    /\ AfterSyncer(sync_resources(json_cache(run.target, "resources"), run.existing,
                                  schema.crCols, run.now, run.stored,
                                  run.target = "resources", db))

SyncCodes ==
    /\ NextSyncer("codes")
    /\ AfterSyncer(sync_codes(json_cache(run.target, "codes"), run.existing,
                              schema.crCols, run.resource_ids, run.now, run.stored, db))

\* SqlBatch.flush in a dry run: a preview is printed, then main() returns.
FlushDry ==
    /\ run.pc = "flush"
    /\ run.dry
    /\ run' = Done
    /\ UNCHANGED <<probe, json, hashesFile, schema, db, commits, sent, runs, edits>>

\* SqlBatch.flush: the whole batch in one BEGIN/COMMIT unit.
FlushOk ==
    /\ run.pc = "flush"
    /\ ~run.dry
    /\ db' = ApplyBatch(db, run.batch)
    /\ sent' = IF run.batch = <<>> THEN sent ELSE Append(sent, "BEGIN batch COMMIT")
    /\ run' = [run EXCEPT !.pc = "save", !.batch = <<>>]
    /\ UNCHANGED <<probe, json, hashesFile, schema, commits, runs, edits>>

\* A flush without BEGIN/COMMIT: the statements before the failing one stay.
FlushFailPartial ==
    /\ run.pc = "flush"
    /\ ~run.dry
    /\ run.batch # <<>>
    /\ \E k \in 1..Len(run.batch) : db' = ApplyBatch(db, SubSeq(run.batch, 1, k - 1))
    /\ run' = Failed("flush", "SyncError")
    /\ UNCHANGED <<probe, json, hashesFile, schema, commits, sent, runs, edits>>

\* A failed flush after which main() goes on to save_hashes.
FlushFailSaves ==
    /\ run.pc = "flush"
    /\ ~run.dry
    /\ run.batch # <<>>
    /\ run' = [run EXCEPT !.pc = "save"]
    /\ UNCHANGED <<probe, json, hashesFile, schema, db, commits, sent, runs, edits>>

\* A statement of the batch fails: dolt sql exits non-zero, nothing is applied.
FlushFail ==
    /\ run.pc = "flush"
    /\ ~run.dry
    /\ run.batch # <<>>
    /\ run' = Failed("flush", "SyncError")
    /\ UNCHANGED <<probe, json, hashesFile, schema, db, commits, sent, runs, edits>>

\* merged = {**stored_hashes, **new_hashes}; save_hashes(merged)
SaveHashes ==
    /\ run.pc = "save"
    /\ hashesFile' = Merge(run.stored, run.new_hashes)
    /\ run' = [run EXCEPT !.pc = "commit"]
    /\ UNCHANGED <<probe, json, schema, db, commits, sent, runs, edits>>

\* dolt add . ; dolt commit -m ... ("nothing to commit" is not an error);
\* dolt push when --push is given.
Commit ==
    /\ run.pc = "commit"
    /\ \E push \in BOOLEAN :
         LET c == IF commits.head = [schema |-> schema, db |-> db] THEN commits
                  ELSE [commits EXCEPT !.n = @ + 1,
                                       !.head = [schema |-> schema, db |-> db]]
         IN commits' = [c EXCEPT !.pushed = IF push THEN @ + 1 ELSE @]
    /\ run' = [Done EXCEPT !.prev = [target |-> run.target, edits |-> edits]]
    /\ UNCHANGED <<probe, json, hashesFile, schema, db, sent, runs, edits>>

\* dolt add, dolt commit or dolt push fails: dolt_cmd raises SyncError outside
\* the try block.
CommitFail ==
    /\ run.pc = "commit"
    /\ run' = Failed("commit", "SyncError")
    /\ UNCHANGED <<probe, json, hashesFile, schema, db, commits, sent, runs, edits>>

Next ==
    \/ EditJson
    \/ Start
    \/ EnsureSchema
    \/ SyncFactions
    \/ SyncCharacters
    \/ SyncResources
    \/ SyncCodes
    \/ FlushDry
    \/ FlushOk
    \/ FlushFail
    \/ SaveHashes
    \/ Commit
    \/ CommitFail

Spec == Init /\ [][Next]_vars

InitResolve ==
    /\ InitProbe
    /\ json = JsonDocs(<<>>, <<>>, <<>>, <<>>)
    /\ hashesFile = <<>>
    /\ schema = ModernSchema
    /\ db = EmptyStore
    /\ commits = [n |-> 0, head |-> [schema |-> ModernSchema, db |-> EmptyStore],
                  pushed |-> 0]
    /\ run = NoRun("idle", 0, "all", FALSE, NoSnapshot, <<"", "">>)
    /\ sent = <<>>
    /\ runs = 0
    /\ edits = 0

NextResolve == Resolve

SpecResolve == InitResolve /\ [][NextResolve]_vars

(***************************************************************************)
(* Claims about resolve_timestamp, checked under SpecResolve.              *)
(***************************************************************************)
ProbeEntry == probe.store[probe.key]

\* C1: resolve_timestamp follows the three-tier precedence: the hashes.json
\* timestamp when that entry has the new hash and a truthy ts (whatever the
\* relational row says), else the relational row's timestamp when that row has
\* the new hash and a non-empty timestamp, else now.
C1_ThreeTierPrecedence ==
    probe.done =>
        probe.outA = IF ProbeTier1 THEN ProbeEntry.ts
                     ELSE IF ProbeTier2 THEN CsvInt(ProbeRowA.last_updated)
                     ELSE PyInt(probe.nowA)

\* Both historical sources match the new hash with different timestamps, now
\* differs from both, and the hashes.json timestamp was returned.
C1_Witness ==
    /\ probe.done
    /\ ProbeTier1
    /\ ProbeTier2
    /\ ProbeRowA.last_updated # ProbeEntry.ts
    /\ probe.nowA # ProbeEntry.ts.v
    /\ probe.outA = ProbeEntry.ts

\* The hashes.json entry of the key is a dict whose hash is not the new hash.
ProbeEntryDisagrees ==
    /\ probe.key \in DOMAIN probe.store
    /\ ProbeEntry.isdict
    /\ ProbeEntry.hash # probe.hash

\* C2 as stated: with a hashes.json entry whose hash differs from the new hash,
\* resolve_timestamp returns now for every relational-store state.
C2_ChangedHashReturnsNow ==
    (probe.done /\ ProbeEntryDisagrees) => probe.outA = PyInt(probe.nowA)

\* C2 amended: with a hashes.json entry whose hash differs from the new hash,
\* the entry is ignored: the result is the relational row's timestamp when that
\* row has the new hash and a non-empty timestamp, and now otherwise.
C2_DisagreeingEntryIgnored ==
    (probe.done /\ ProbeEntryDisagrees) =>
        probe.outA = IF ProbeTier2 THEN CsvInt(ProbeRowA.last_updated)
                     ELSE PyInt(probe.nowA)

\* A disagreeing entry with a usable timestamp, no matching relational row,
\* and now returned.
C2_Witness ==
    /\ probe.done
    /\ ProbeEntryDisagrees
    /\ Truthy(ProbeEntry.ts)
    /\ ProbeEntry.ts.v # probe.nowA
    /\ ~ProbeTier2
    /\ probe.outA = PyInt(probe.nowA)

\* C4: two devices that share the JSON entity and hashes.json but differ in
\* their relational table and their clock write the same last_updated (row
\* value and hashes.json ts) for an entity whose hashes.json entry matches its
\* hash with a usable timestamp.
C4_DeviceIndependence ==
    (probe.done /\ ProbeTier1) =>
        /\ escape_sql_ts(probe.outA) = escape_sql_ts(probe.outB)
        /\ HashEntry(probe.hash, probe.outA) = HashEntry(probe.hash, probe.outB)

\* Device A holds a current row with another timestamp, device B has no row
\* for the key, the clocks differ, and both wrote the hashes.json timestamp.
C4_Witness ==
    /\ probe.done
    /\ ProbeTier1
    /\ ProbeTier2
    /\ ProbeRowA.last_updated # ProbeEntry.ts
    /\ ~(probe.tableB.exists /\ LastRowOf(probe.tableB.rows, probe.key).found)
    /\ probe.nowA # probe.nowB
    /\ escape_sql_ts(probe.outA) = ProbeEntry.ts
    /\ escape_sql_ts(probe.outB) = ProbeEntry.ts

(***************************************************************************)
(* Claims about sync runs, checked under Spec.                             *)
(***************************************************************************)
ParentTables == {"factions", "characters", "resources", "codes"}

\* The positions of the rows of a table that carry a natural key.
RowsNamed(rows, name) == {k \in 1..Len(rows) : rows[k].name = name}

\* The step in which a run's batch lands in the relational store.
FlushLands == run.pc = "flush" /\ run'.pc = "save"

\* The lifecycle of one row written by a landing batch, against the row the
\* table held for the same identity before the batch.
LifecycleOf(t, r) ==
    LET before == RowsNamed(db[t], r.name)
        seen   == /\ t \in DOMAIN run.stored
                  /\ r.name \in DOMAIN run.stored[t]
                  /\ run.stored[t][r.name].hash = r.data_hash
    IN IF before = {}
         THEN seen \/ r.last_updated = PyInt(run.now)
         ELSE LET o == db[t][CHOOSE k \in before : TRUE]
              IN IF o.data_hash = r.data_hash
                   THEN \/ r.last_updated = o.last_updated
                        \/ o.last_updated = PyNone /\ r.last_updated = PyInt(run.now)
                   ELSE r.last_updated = PyInt(run.now)

C5_HashStoreMerged ==
    [][(run.pc = "save" /\ run'.pc = "commit" /\ run.target # "all") =>
        /\ DOMAIN run.new_hashes \subseteq {run.target}
        /\ \A c \in DOMAIN hashesFile \ DOMAIN run.new_hashes :
             c \in DOMAIN hashesFile' /\ hashesFile'[c] = hashesFile[c]
        /\ \A c \in DOMAIN run.new_hashes : hashesFile'[c] = run.new_hashes[c]]_vars

\* A --target factions run has saved hashes.json: the characters entries of
\* the earlier full run are still there and the factions entries are new.
C5_Witness ==
    /\ run.pc = "commit"
    /\ run.target = "factions"
    /\ "characters" \in DOMAIN run.snap.hashes0
    /\ "characters" \in DOMAIN hashesFile
    /\ hashesFile.characters = run.snap.hashes0.characters
    /\ "factions" \in DOMAIN run.snap.hashes0
    /\ "factions" \in DOMAIN run.new_hashes
    /\ hashesFile.factions = run.new_hashes.factions
    /\ hashesFile.factions # run.snap.hashes0.factions

\* The run ended in the try block of main() with a SyncError: a normalizer
\* raised it, or a statement of the flushed batch failed.
AbortedInTry ==
    /\ run.pc = "failed"
    /\ run.error \in {<<"sync", "SyncError">>, <<"flush", "SyncError">>}

\* C6 as stated: after a normalizer's SyncError or a failed flush, the
\* relational store holds the rows it held when the run started, hashes.json
\* is not rewritten, no commit is made and the exit status is non-zero.
C6_NoRowChangeVisible ==
    AbortedInTry =>
        /\ db = run.snap.db0
        /\ hashesFile = run.snap.hashes0
        /\ commits = run.snap.commits0
        /\ run.exit # 0

\* C6 amended: after a normalizer's SyncError or a failed flush, no statement
\* of the run's batch is visible (the rows are those the schema ensurer left,
\* which include its own UPDATEs), hashes.json is not rewritten, no commit is
\* made and the exit status is non-zero.
C6_NoBatchStatementVisible ==
    AbortedInTry =>
        /\ db = run.snap.db1
        /\ hashesFile = run.snap.hashes0
        /\ commits = run.snap.commits0
        /\ run.exit # 0

\* A flush failed in a second run: the rows, hashes.json and the commit of the
\* first run are all that is there.
C6_Witness ==
    /\ run.pc = "failed"
    /\ run.error = <<"flush", "SyncError">>
    /\ runs = 2
    /\ db.factions # <<>>
    /\ db = run.snap.db1
    /\ hashesFile = run.snap.hashes0
    /\ hashesFile # <<>>
    /\ commits.n = 1

\* C7: from its start to its end a dry run sends no mutating statement (no
\* schema alteration, no batch), and leaves the rows, the schema, hashes.json,
\* the commits and the pushes as it found them.
C7_DryRunChangesNothing ==
    (run.dry /\ run.pc # "idle") =>
        /\ sent = <<>>
        /\ db = run.snap.db0
        /\ schema = run.snap.schema0
        /\ hashesFile = run.snap.hashes0
        /\ commits = run.snap.commits0

\* A full dry run over a store that lacks the resources table has previewed a
\* non-empty batch and returned; the table is still missing.
C7_Witness ==
    /\ run.dry
    /\ run.pc = "done"
    /\ run.target = "all"
    /\ run.exit = 0
    /\ json.factions # <<>>
    /\ db = EmptyStore
    /\ commits.n = 0

\* The names the resource category gives: the resources of resources.json
\* that have a name.
ResourceNames(resources) ==
    {Get(resources[k], "name", "") : k \in 1..Len(resources)} \ {""}

\* The code entity names, in a reward, a resource the resource category lacks.
HasDanglingReward(c, resources) ==
    \E k \in 1..Len(Get(c, "rewards", <<>>)) :
        /\ c.rewards[k].name # ""
        /\ c.rewards[k].name \notin ResourceNames(resources)

\* sync_codes is about to run on the loaded documents.
CodesUpNext == NextSyncer("codes")

\* The run stops with a SyncError before any flush: the batch is dropped, the
\* rows are as the schema ensurer left them, nothing is saved or committed.
AbortsBeforeFlush ==
    /\ run'.pc = "failed"
    /\ run'.error = <<"sync", "SyncError">>
    /\ run'.exit # 0
    /\ run'.batch = <<>>
    /\ db' = run.snap.db1
    /\ hashesFile' = run.snap.hashes0
    /\ commits' = run.snap.commits0

\* C8 as stated: whenever a code entity of codes.json has a reward naming a
\* resource absent from resources.json, the run raises SyncError before the
\* batch is flushed: no row is written and nothing is committed.
C8_DanglingRewardAborts ==
    [][(CodesUpNext
          /\ \E k \in 1..Len(json.codes) : HasDanglingReward(json.codes[k], json.resources))
       => AbortsBeforeFlush]_vars

\* C8 amended: whenever a code entity that has its identity field (code) has a
\* reward naming a resource absent from resources.json, and the store has the
\* codes and code_rewards tables, the run raises SyncError before the batch is
\* flushed: no row is written and nothing is committed.
C8_NamedCodeDanglingRewardAborts ==
    [][(CodesUpNext
          /\ {"codes", "code_rewards"} \subseteq run.existing
          /\ \E k \in 1..Len(json.codes) :
               /\ Get(json.codes[k], "code", "") # ""
               /\ HasDanglingReward(json.codes[k], json.resources))
       => AbortsBeforeFlush]_vars

\* After a first full sync, Gold was removed from resources.json; the second
\* full sync stopped in sync_codes on WELCOME's reward, and the rows and the
\* commit of the first sync are all that is there.
C8_Witness ==
    /\ run.pc = "failed"
    /\ run.error = <<"sync", "SyncError">>
    /\ run.target = "all"
    /\ runs = 2
    /\ json.resources = <<>>
    /\ json.codes = <<KWelcome>>
    /\ db.codes # <<>>
    /\ db.resources # <<>>
    /\ db = run.snap.db1
    /\ commits.n = 1

\* The ids of the rows of a table.
IdsOf(rows) == {rows[k].id : k \in 1..Len(rows)}

\* Every foreign key of every row of the store names a row of the table it
\* references.
ForeignKeysResolve ==
    /\ \A k \in 1..Len(db.character_factions) :
         /\ db.character_factions[k].faction_id \in IdsOf(db.factions)
         /\ db.character_factions[k].character_id \in IdsOf(db.characters)
    /\ \A k \in 1..Len(db.faction_recommended_artifacts) :
         db.faction_recommended_artifacts[k].faction_id \in IdsOf(db.factions)
    /\ \A k \in 1..Len(db.skills) :
         db.skills[k].character_id \in IdsOf(db.characters)
    /\ \A k \in 1..Len(db.code_rewards) :
         /\ db.code_rewards[k].code_id \in IdsOf(db.codes)
         /\ db.code_rewards[k].resource_id # PyNone
              => db.code_rewards[k].resource_id.v \in IdsOf(db.resources)

Inserted(batch, table) ==
    LET stmts == SelectSeq(batch, LAMBDA s : s.op = "INSERT" /\ s.table = table)
    IN {stmts[k].row : k \in 1..Len(stmts)}

\* C10: in the batch of a full sync, every character_factions row carries the
\* id that the factions insert of the same batch gives to the faction the
\* character lists at that position.
C10_FactionIdsAgree ==
    (run.pc = "flush" /\ run.target = "all") =>
        \A link \in Inserted(run.batch, "character_factions") :
        \A c \in Inserted(run.batch, "characters") :
        \A k \in 1..Len(json.characters) :
            (c.id = link.character_id /\ json.characters[k].name = c.name)
            => \E f \in Inserted(run.batch, "factions") :
                  /\ f.name = json.characters[k].factions[link.sort_order]
                  /\ f.id = link.faction_id


(***************************************************************************)
(* The Entity Normalizers on their own: one category's normalizer applied  *)
(* to the same documents, hashes.json and rows at two different times.     *)
(***************************************************************************)
\* A faction whose name is not in FACTION_ORDER.
FNova == [name |-> "Nova", description |-> "d0"]

\* A second resources.json entry that repeats the name of RGold.
RGoldAgain == [name |-> "Gold", category |-> "Currency", quality |-> "SR"]

KGem == [code |-> "GEM", rewards |-> <<[name |-> "Gem", quantity |-> 7]>>]

\* Entities without an identity that carry child data: the name is missing,
\* or empty.
FAnonOrb == [description |-> "d0", recommended_artifacts |-> <<"Orb">>]

CAnon == [name |-> "", character_class |-> "Mage", quality |-> "SSR",
          factions |-> <<"Wild Spirit">>, skills |-> <<"Slash">>]

NormalizerFactionDocs == SeqsUpTo({FEcho, FWild, FAnon, FAnonOrb, FNova}, MaxFactions)

NormalizerCharacterDocs == CharacterDocs \cup {<<CAnon, CAria>>}

NormalizerResourceDocs == ResourceDocs \cup {<<RGold, RGoldAgain, RGem>>}

NormalizerCodeDocs == CodeDocs \cup {<<KGem, KWelcome>>, <<KWelcome, KWelcomeEdited>>}

NormalizerInputs ==
    {JsonDocs(f, c, <<RGold>>, <<KWelcome>>) :
        f \in NormalizerFactionDocs, c \in NormalizerCharacterDocs}
    \cup {JsonDocs(<<FEcho>>, <<>>, r, k) :
            r \in NormalizerResourceDocs, k \in NormalizerCodeDocs}

\* The syncers dict of main(): the normalizer of one category under --target all.
Syncer(category, docs, store, tables, crCols, stored_hashes, now) ==
    CASE category = "factions" ->
           sync_factions(docs.factions, docs.artifacts, now, stored_hashes, FALSE,
                         docs.characters, store)
      [] category = "characters" ->
           sync_characters(docs.characters, docs.factions, now, stored_hashes, store,
                           build_subclass_maps(docs.subclasses), TRUE)
      [] category = "resources" ->
           sync_resources(docs.resources, tables, crCols, now, stored_hashes, FALSE, store)
      [] OTHER ->
           sync_codes(docs.codes, tables, crCols, build_resource_id_map(docs.resources),
                      now, stored_hashes, store)

\* The rows and hashes.json an earlier full sync of docs left (nothing when a
\* normalizer of that sync raised).
EarlierSync(docs) ==
    LET out(c) == Syncer(c, docs, EmptyStore, AllTables, {"resource_id"}, <<>>, 1)
        order == <<"factions", "characters", "resources", "codes">>
        ok == \A k \in 1..4 : out(order[k]).error = ""
        batch == out("factions").batch \o out("characters").batch
                 \o out("resources").batch \o out("codes").batch
        cats == {c \in ParentTables : out(c).hashes # <<>>}
    IN IF ok THEN [db |-> ApplyBatch(EmptyStore, batch),
                   hashes |-> [c \in cats |-> out(c).hashes]]
       ELSE [db |-> EmptyStore, hashes |-> <<>>]

\* The documents an earlier sync may have seen: these, or these before an edit.
EarlierDocs(docs) ==
    {docs} \cup UNION {{[docs EXCEPT ![f] = d] : d \in EditsOf(docs[f])} : f \in Files}

NormalizerIdle ==
    [done |-> FALSE, category |-> "", nowA |-> 0, nowB |-> 0,
     outA |-> <<>>, outB |-> <<>>]

InitNormalize ==
    /\ probe = NormalizerIdle
    /\ json \in NormalizerInputs
    /\ \E e \in EarlierDocs(json), keepHashes \in BOOLEAN, keepRows \in BOOLEAN :
         /\ hashesFile = IF keepHashes THEN EarlierSync(e).hashes ELSE <<>>
         /\ db = IF keepRows THEN EarlierSync(e).db ELSE EmptyStore
         /\ commits = [n |-> 0, head |-> [schema |-> ModernSchema, db |-> db],
                       pushed |-> 0]
    /\ schema = ModernSchema
    /\ run = NoRun("idle", 0, "all", FALSE, NoSnapshot, <<"", "">>)
    /\ sent = <<>>
    /\ runs = 0
    /\ edits = 0

\* One category's normalizer, run at two times on the same inputs.
Normalize(category) ==
    /\ ~probe.done
    /\ \E later \in {2, 3} :
         probe' = [done |-> TRUE, category |-> category, nowA |-> 2, nowB |-> later,
                   outA |-> Syncer(category, json, db, schema.tables, schema.crCols,
                                   hashesFile, 2),
                   outB |-> Syncer(category, json, db, schema.tables, schema.crCols,
                                   hashesFile, later)]
    /\ UNCHANGED runVars

NormalizeFactions == Normalize("factions")

NormalizeCharacters == Normalize("characters")

NormalizeResources == Normalize("resources")

NormalizeCodes == Normalize("codes")

NextNormalize ==
    \/ NormalizeFactions
    \/ NormalizeCharacters
    \/ NormalizeResources
    \/ NormalizeCodes

SpecNormalize == InitNormalize /\ [][NextNormalize]_vars

NormalizerRan == probe.done /\ probe.category # ""


(***************************************************************************)
(* Claims about the normalizers, checked under SpecNormalize.              *)
(***************************************************************************)
\* The resources rows sync_resources inserts for the loaded resources.json.
ResourceRows ==
    Inserted(Syncer("resources", json, db, schema.tables, schema.crCols,
                    hashesFile, 2).batch, "resources")

\* C11: build_resource_id_map matches the insert order of sync_resources: the
\* id the map gives a resource name is the id of the resources row inserted
\* for that name, and every code_rewards row carries, with the quantity of the
\* reward it comes from, the id of the resources row inserted for the reward's
\* resource name.
C11_MapMatchesInsertOrder ==
    /\ (NormalizerRan /\ probe.category = "resources") =>
         \A r \in Inserted(probe.outA.batch, "resources") :
            /\ r.name \in DOMAIN build_resource_id_map(json.resources)
            /\ build_resource_id_map(json.resources)[r.name] = r.id
    /\ (NormalizerRan /\ probe.category = "codes") =>
         \A cr \in Inserted(probe.outA.batch, "code_rewards") :
         \E c \in Inserted(probe.outA.batch, "codes"), k \in 1..Len(json.codes) :
            /\ c.id = cr.code_id
            /\ Get(json.codes[k], "code", "") = c.name
            /\ \E j \in 1..Len(Get(json.codes[k], "rewards", <<>>)), r \in ResourceRows :
                  /\ json.codes[k].rewards[j].quantity = cr.quantity
                  /\ json.codes[k].rewards[j].name = r.name
                  /\ PyInt(r.id) = cr.resource_id


\* The parent INSERT statements of a batch, in batch order.
ParentInserts(batch, table) ==
    SelectSeq(batch, LAMBDA s : s.op = "INSERT" /\ s.table = table)

\* The identity field of an entity of a category ("" when missing or empty).
IdentityOf(category, e) == Get(e, IF category = "codes" THEN "code" ELSE "name", "")

\* The loaded entities of a category in its canonical order (FILE_SORT_KEY;
\* codes.json has no sort key and keeps file order).
CanonicalOrder(category) ==
    LET data == json[category]
    IN CASE category = "factions" ->
              Sorted(data, [i \in 1..Len(data) |-> faction_sort_key(data[i])])
         [] category = "characters" ->
              Sorted(data, [i \in 1..Len(data) |-> character_sort_key(data[i])])
         [] category = "resources" ->
              Sorted(data, [i \in 1..Len(data) |-> resource_sort_key(data[i])])
         [] OTHER -> data

\* The entities of a category that have an identity, in canonical order.
Identified(category) ==
    SelectSeq(CanonicalOrder(category), LAMBDA e : IdentityOf(category, e) # "")

\* C12: the parent rows a normalizer inserts are the entities that have an
\* identity, in canonical order, with the ids 1..n in that order: a skipped
\* entity consumes no id.
C12_ParentIdsDense ==
    (NormalizerRan /\ probe.outA.error = "") =>
        LET ins == ParentInserts(probe.outA.batch, probe.category)
            ents == Identified(probe.category)
        IN /\ Len(ins) = Len(ents)
           /\ \A k \in 1..Len(ins) :
                /\ ins[k].row.id = k
                /\ ins[k].row.name = IdentityOf(probe.category, ents[k])


\* The Hash Store entry of the row's entity records the row's hash.
HashStoreKnows(table, row) ==
    /\ table \in DOMAIN hashesFile
    /\ row.name \in DOMAIN hashesFile[table]
    /\ hashesFile[table][row.name].hash = row.data_hash

\* The relational row of the row's entity carries the row's hash and a timestamp.
StoreKnows(table, row) ==
    LET old == get_old_timestamps(TRUE, db[table])
    IN /\ row.name \in DOMAIN old
       /\ old[row.name][2] = row.data_hash
       /\ Truthy(old[row.name][1])

\* Two statements that differ, if at all, in the last_updated value they insert.
SameButTimestamp(a, b) ==
    /\ a.op = b.op
    /\ a.table = b.table
    /\ DOMAIN a.row = DOMAIN b.row
    /\ \A f \in DOMAIN a.row \ {"last_updated"} : a.row[f] = b.row[f]

\* C13 as stated: with the JSON input and the Hash Store fixed, two runs of a
\* category's normalizer emit identical statement sequences.
C13_SameStatements ==
    NormalizerRan => probe.outA.batch = probe.outB.batch

\* C13, amended: with the JSON input, the Hash Store and the relational rows
\* fixed, two runs of a category's normalizer emit the same statements with
\* the same ids in the same order; the sequences differ only in the
\* last_updated of an entity whose current hash neither its Hash Store entry
\* nor its relational row carries, which is each run's own now.
C13_SameUpToFreshTimestamps ==
    NormalizerRan =>
        LET A == probe.outA.batch
            B == probe.outB.batch
        IN /\ probe.outA.error = probe.outB.error
           /\ Len(A) = Len(B)
           /\ \A k \in 1..Len(A) :
                \/ A[k] = B[k]
                \/ /\ SameButTimestamp(A[k], B[k])
                   /\ A[k].op = "INSERT"
                   /\ A[k].table \in ParentTables
                   /\ A[k].row.last_updated = PyInt(probe.nowA)
                   /\ B[k].row.last_updated = PyInt(probe.nowB)
                   /\ ~HashStoreKnows(A[k].table, A[k].row)
                   /\ ~StoreKnows(A[k].table, A[k].row)

\* Two runs at different times: one entity keeps its Hash Store timestamp in
\* both, another is stamped with each run's own now.
C13_Witness ==
    /\ NormalizerRan
    /\ probe.nowA # probe.nowB
    /\ \E k, j \in 1..Len(probe.outA.batch) :
         /\ Len(probe.outB.batch) = Len(probe.outA.batch)
         /\ probe.outA.batch[k] # probe.outB.batch[k]
         /\ probe.outA.batch[j] = probe.outB.batch[j]
         /\ probe.outA.batch[j].op = "INSERT"
         /\ probe.outA.batch[j].table \in ParentTables
         /\ HashStoreKnows(probe.outA.batch[j].table, probe.outA.batch[j].row)


(***************************************************************************)
(* Claims about consecutive runs of main(), checked under Spec.            *)
(***************************************************************************)
\* The parent and child tables a category's normalizer fills.
TablesOf(category) ==
    CASE category = "factions"   -> {"factions", "faction_recommended_artifacts"}
      [] category = "characters" -> {"characters", "character_factions", "skills",
                                     "talent_levels", "character_subclasses"}
      [] category = "resources"  -> {"resources"}
      [] OTHER                   -> {"codes", "code_rewards"}

\* The run now flushing syncs the category again: the run before it completed
\* a sync of the category and no JSON document was edited since that run
\* started.
SyncedAgain(category) ==
    /\ run.prev.target # ""
    /\ run.prev.edits = edits
    /\ \E k \in 1..Len(SyncersOf(run.prev.target)) :
         SyncersOf(run.prev.target)[k] = category
    /\ \E k \in 1..Len(SyncersOf(run.target)) : SyncersOf(run.target)[k] = category

\* C14: a second successful sync of a category with no JSON change leaves the
\* category's parent and child tables as the first sync left them: the same
\* rows, ids, last_updated and data_hash.
C14_FullReplaceIdempotent ==
    [][\A category \in ParentTables :
          (FlushLands /\ SyncedAgain(category))
          => \A t \in TablesOf(category) : db'[t] = run.snap.db0[t]]_vars


\* The column of a child table that names the parent row.
ParentIdOf(category, s) ==
    CASE category = "factions"   -> s.row.faction_id
      [] category = "characters" -> s.row.character_id
      [] OTHER                   -> s.row.code_id

\* The child INSERT statements a category's normalizer emits for its parents.
ChildInserts(batch, category) ==
    SelectSeq(batch, LAMBDA s :
        /\ s.op = "INSERT"
        /\ s.table \in TablesOf(category) \ {category}
        /\ (category = "factions" => s.table = "faction_recommended_artifacts"))

\* The identities of the loaded entities of a category.
Identities(category) ==
    {IdentityOf(category, json[category][k]) : k \in 1..Len(json[category])} \ {""}

RepeatedIdentity(category) ==
    \E i, j \in 1..Len(json[category]) :
        /\ i < j
        /\ IdentityOf(category, json[category][i]) # ""
        /\ IdentityOf(category, json[category][i]) = IdentityOf(category, json[category][j])

\* C16: a normalizer given two entities that share an identity value rejects
\* the input with a hard error: it emits no row for either, and neither wins
\* in the Hash Store entries.
C16_DuplicateIdentityRejected ==
    (NormalizerRan /\ RepeatedIdentity(probe.category)) =>
        /\ probe.outA.error # ""
        /\ ParentInserts(probe.outA.batch, probe.category) = <<>>
        /\ probe.outA.hashes = <<>>


(***************************************************************************)
(* The Schema Evolution Ensurer on its own: ensure_schema_extensions run   *)
(* twice in a row on one live schema, with no data change in between.      *)
(***************************************************************************)
\* The live schemas a deployment may be in: any stage of the migrations.
EnsurerSchemas ==
    {sc \in [tables : {AllTables \ gone : gone \in SUBSET {"resources", "code_rewards",
                                                           "howlkins"}},
             crCols : SUBSET {"resource_id", "resource_name"},
             qualityNullable : BOOLEAN,
             crFk : BOOLEAN,
             howlkinCols : SUBSET {"passive_effect", "passive_effects"}] :
        /\ "howlkins" \notin sc.tables => sc.howlkinCols = {}
        /\ "resources" \notin sc.tables => ~sc.qualityNullable /\ ~sc.crFk
        /\ "code_rewards" \notin sc.tables => sc.crCols = {} /\ ~sc.crFk
        /\ "code_rewards" \in sc.tables => sc.crCols # {}
        /\ sc.crFk => "resource_id" \in sc.crCols}

\* The rows such a deployment holds: at most one resource and one reward row,
\* whose legacy name is a resource, is not a resource, or is empty.
EnsurerStores(sc) ==
    {[EmptyStore EXCEPT
        !.resources = IF gold THEN LegacyStore("Gold").resources ELSE <<>>,
        !.codes = IF rewardName = "none" THEN <<>> ELSE LegacyStore("Gold").codes,
        !.code_rewards =
            IF rewardName = "none" THEN <<>>
            ELSE <<[id |-> 1, code_id |-> 1,
                    resource_id |-> IF linked THEN PyInt(1) ELSE PyNone,
                    quantity |-> 100,
                    resource_name |-> IF "resource_name" \in sc.crCols
                                        THEN rewardName ELSE ""]>>] :
        gold \in IF "resources" \in sc.tables THEN BOOLEAN ELSE {FALSE},
        rewardName \in IF "code_rewards" \in sc.tables
                         THEN {"none", "Gold", "Lost", ""} ELSE {"none"},
        linked \in IF "resource_id" \in sc.crCols /\ "resources" \in sc.tables
                     THEN BOOLEAN ELSE {FALSE}}

\* What one call of ensure_schema_extensions did.
EnsurerOutcome(st) ==
    [sent |-> st.sent, asked |-> st.asked, warnings |-> st.warnings,
     failed |-> st.failed]

NoOutcome == [sent |-> <<>>, asked |-> <<>>, warnings |-> 0, failed |-> FALSE]

InitEnsure ==
    /\ schema \in EnsurerSchemas
    /\ db \in EnsurerStores(schema)
    /\ \E dry \in BOOLEAN :
         probe = [done |-> 0, dry |-> dry, first |-> NoOutcome, second |-> NoOutcome,
                  schema0 |-> schema, db0 |-> db, schema1 |-> schema, db1 |-> db]
    /\ json = JsonDocs(<<>>, <<>>, <<>>, <<>>)
    /\ hashesFile = <<>>
    /\ commits = [n |-> 0, head |-> [schema |-> schema, db |-> db], pushed |-> 0]
    /\ run = NoRun("idle", 0, "all", FALSE, NoSnapshot, <<"", "">>)
    /\ sent = <<>>
    /\ runs = 0
    /\ edits = 0

\* The first call of ensure_schema_extensions on the deployment.
EnsureFirst ==
    /\ probe.done = 0
    /\ LET st == ensure_schema_extensions(schema, db, probe.dry, -1)
       IN /\ schema' = st.schema
          /\ db' = st.db
          /\ sent' = sent \o st.sent
          /\ probe' = [probe EXCEPT !.done = 1, !.first = EnsurerOutcome(st),
                                    !.schema1 = st.schema, !.db1 = st.db]
    /\ UNCHANGED <<json, hashesFile, commits, run, runs, edits>>

\* The next call, on the schema and rows the first call left.
EnsureAgain ==
    /\ probe.done = 1
    /\ ~probe.first.failed
    /\ LET st == ensure_schema_extensions(schema, db, probe.dry, -1)
       IN /\ schema' = st.schema
          /\ db' = st.db
          /\ sent' = sent \o st.sent
          /\ probe' = [probe EXCEPT !.done = 2, !.second = EnsurerOutcome(st)]
    /\ UNCHANGED <<json, hashesFile, commits, run, runs, edits>>

NextEnsure ==
    \/ EnsureFirst
    \/ EnsureAgain

SpecEnsure == InitEnsure /\ [][NextEnsure]_vars

(***************************************************************************)
(* Claims about the schema ensurer, checked under SpecEnsure.              *)
(***************************************************************************)
\* C17 as stated: the second of two ensurer runs in a row issues no corrective
\* statement.
C17_SecondRunIssuesNothing ==
    probe.done = 2 => probe.second.sent = <<>>

\* C17, amended: the second of two ensurer runs in a row changes neither the
\* schema nor a row and issues no ALTER, CREATE or DROP; the one statement it
\* can issue is the code_rewards backfill UPDATE, with its count query, while
\* the legacy resource_name column is kept because a row stays unresolved.
C17_SecondRunChangesNothing ==
    probe.done = 2 =>
        /\ schema = probe.schema1
        /\ db = probe.db1
        /\ probe.second.failed = FALSE
        /\ \/ probe.second.sent = <<>>
           \/ /\ probe.second.sent = <<"UPDATE code_rewards SET resource_id">>
              /\ "resource_name" \in schema.crCols
              /\ Unresolved(db.code_rewards) > 0
              /\ probe.second.warnings = 1
        /\ (~probe.dry /\ "resource_name" \in schema.crCols) => probe.second.sent # <<>>

\* A first run that issued corrections and kept the legacy column, followed
\* by a second run that issued the backfill again.
C17_Witness ==
    /\ probe.done = 2
    /\ Len(probe.first.sent) > 1
    /\ probe.first.warnings = 1
    /\ probe.second.sent # <<>>


\* The legacy column a DROP COLUMN statement removes ("" for another statement).
DroppedColumn(statement) ==
    CASE statement = "ALTER TABLE code_rewards DROP COLUMN resource_name" -> "resource_name"
      [] statement = "ALTER TABLE howlkins DROP COLUMN passive_effect"    -> "passive_effect"
      [] statement = "ALTER TABLE howlkins DROP COLUMN passive_effects"   -> "passive_effects"
      [] OTHER -> ""

\* The statement at position p of an ensurer run was preceded, in that run, by
\* the count query about the column.
CountedBefore(outcome, p, column) ==
    \E k \in 1..Len(outcome.asked) :
        /\ outcome.asked[k].column = column
        /\ outcome.asked[k].at < p

\* The run sent the DROP COLUMN of the column.
Dropped(outcome, column) ==
    \E p \in 1..Len(outcome.sent) : DroppedColumn(outcome.sent[p]) = column

BatchSent == sent # <<>> /\ sent[Len(sent)] = "BEGIN batch COMMIT"

\* A normalizer of the run returns in this step.
NormalizerStep == run.pc = "sync" /\ run'.pc \in {"sync", "flush"}

\* The batch holds the statements of the category's normalizer.
InBatch(batch, category) ==
    \E k \in 1..Len(batch) : batch[k].op = "DELETE" /\ batch[k].table = category

\* C19: in every run the schema ensurer has finished before a normalizer
\* starts, and no normalizer runs after a failed schema step; the batch is
\* flushed only after every targeted normalizer has finished; hashes.json is
\* written only after the flush succeeded; and dolt commits only after
\* hashes.json is written.
C19_PipelineOrder ==
    [][/\ (run'.pc = "sync" /\ run.pc # "sync") => run.pc = "schema"
       /\ (NormalizerStep /\ ~run.dry)
            => ensure_schema_extensions(schema, db, FALSE, -1).schema = schema
       /\ (run.pc = "schema" /\ run'.pc = "failed")
            => run'.batch = <<>> /\ run'.todo = <<>> /\ run'.new_hashes = <<>>
       /\ (run.pc = "failed" /\ run'.pc # "failed") => run'.pc = "schema" /\ runs' = runs + 1
       /\ (db' # db \/ sent' # sent) => run.pc \in {"idle", "done", "failed", "schema", "flush"}
       /\ (run.pc = "flush" /\ run'.pc # "flush")
            => /\ run.todo = <<>>
               /\ \A k \in 1..Len(SyncersOf(run.target)) :
                    SyncersOf(run.target)[k] \in run.existing
                    => InBatch(run.batch, SyncersOf(run.target)[k])
       /\ hashesFile' # hashesFile => run.pc = "save"
       /\ (run.pc = "save" /\ run'.pc # "save")
            => /\ BatchSent
               /\ run'.pc = "commit"
               /\ hashesFile' = Merge(run.stored, run.new_hashes)
       /\ run.pc = "save" => ~run.dry /\ BatchSent
       /\ commits' # commits => run.pc = "commit"
       /\ run.pc = "commit" => hashesFile = Merge(run.stored, run.new_hashes)]_vars

\* A full run went through every step: schema, normalizers, flush, hashes.json
\* and commit.
C19_Witness ==
    /\ run.pc = "done"
    /\ ~run.dry
    /\ run.target = "all"
    /\ BatchSent
    /\ commits.n = 1
    /\ "codes" \in DOMAIN hashesFile
    /\ "factions" \in DOMAIN hashesFile


(***************************************************************************)
(* SqlBatch on its own: a batch object that main() adds statements to and  *)
(* flushes.  The state keeps the object's fields, the dolt_sql calls made  *)
(* so far and every statement added so far.                                *)
(***************************************************************************)
MaxAdds == 3

MaxFlushes == 3

\* The statements added in the model.
BatchStatements == {"DELETE FROM codes;", "INSERT INTO codes VALUES (1);"}

\* "BEGIN;\n" + "\n".join(statements) + "\nCOMMIT;": the lines of the text.
Combined(statements) == <<"BEGIN;">> \o statements \o <<"COMMIT;">>

\* SqlBatch.__init__
InitBatch ==
    /\ \E dry_run \in BOOLEAN :
         probe = [statements |-> <<>>, dry_run |-> dry_run, calls |-> <<>>,
                  added |-> <<>>, flushes |-> 0, last |-> "init", raised |-> FALSE]
    /\ json = JsonDocs(<<>>, <<>>, <<>>, <<>>)
    /\ hashesFile = <<>>
    /\ schema = ModernSchema
    /\ db = EmptyStore
    /\ commits = [n |-> 0, head |-> [schema |-> ModernSchema, db |-> EmptyStore],
                  pushed |-> 0]
    /\ run = NoRun("idle", 0, "all", FALSE, NoSnapshot, <<"", "">>)
    /\ sent = <<>>
    /\ runs = 0
    /\ edits = 0

\* A flush that leaves the statements in the list.
FlushKeeps(batch) ==
    IF batch.statements = <<>> THEN [batch EXCEPT !.flushes = @ + 1, !.last = "flush"]
    ELSE [batch EXCEPT
            !.calls = Append(@, [query |-> Combined(batch.statements),
                                 dry_run |-> batch.dry_run]),
            !.flushes = @ + 1, !.last = "flush"]

\* SqlBatch.add
add(batch, sql) ==
    [batch EXCEPT !.statements = Append(@, sql), !.added = Append(@, sql),
                  !.last = "add"]

\* SqlBatch.flush when dolt_sql returns.
flush(batch) ==
    IF batch.statements = <<>> THEN [batch EXCEPT !.flushes = @ + 1, !.last = "flush"]
    ELSE [batch EXCEPT
            !.calls = Append(@, [query |-> Combined(batch.statements),
                                 dry_run |-> batch.dry_run]),
            !.statements = <<>>,
            !.flushes = @ + 1, !.last = "flush"]

BatchAdd ==
    /\ ~probe.raised
    /\ Len(probe.added) < MaxAdds
    /\ \E sql \in BatchStatements : probe' = add(probe, sql)
    /\ UNCHANGED runVars

BatchFlush ==
    /\ ~probe.raised
    /\ probe.flushes < MaxFlushes
    /\ probe' = flush(probe)
    /\ UNCHANGED runVars

\* dolt sql exits non-zero: dolt_sql raises SyncError out of flush, before the
\* list is cleared, and main() exits.
BatchFlushRaises ==
    /\ ~probe.raised
    /\ probe.flushes < MaxFlushes
    /\ ~probe.dry_run
    /\ probe.statements # <<>>
    /\ probe' = [probe EXCEPT
                   !.calls = Append(@, [query |-> Combined(probe.statements),
                                        dry_run |-> FALSE]),
                   !.flushes = @ + 1, !.last = "flush", !.raised = TRUE]
    /\ UNCHANGED runVars

NextBatch ==
    \/ BatchAdd
    \/ BatchFlush
    \/ BatchFlushRaises

SpecBatch == InitBatch /\ [][NextBatch]_vars

\* The statements of a dolt_sql call between its BEGIN and COMMIT lines.
BodyOf(call) == SubSeq(call.query, 2, Len(call.query) - 1)

\* The statements of all calls, in call order.
RECURSIVE Delivered(_)
Delivered(calls) ==
    IF calls = <<>> THEN <<>> ELSE BodyOf(Head(calls)) \o Delivered(Tail(calls))

\* C20: add appends in call order; a flush passes all accumulated statements,
\* in that order, to one dolt_sql call as one BEGIN/COMMIT unit and empties
\* the list; a flush that follows a flush with no add in between sends nothing.
C20_SqlBatch ==
    [][/\ probe'.raised \/ Delivered(probe'.calls) \o probe'.statements = probe'.added
       /\ \A k \in 1..Len(probe'.calls) :
            /\ probe'.calls[k].query = Combined(BodyOf(probe'.calls[k]))
            /\ \A j \in 1..Len(BodyOf(probe'.calls[k])) :
                 BodyOf(probe'.calls[k])[j] \in BatchStatements
       /\ (probe'.flushes = probe.flushes /\ ~probe'.raised)
            => /\ Len(probe'.statements) = Len(probe.statements) + 1
               /\ SubSeq(probe'.statements, 1, Len(probe.statements)) = probe.statements
               /\ probe'.calls = probe.calls
       /\ (probe'.flushes # probe.flushes /\ ~probe'.raised)
            => /\ probe'.statements = <<>>
               /\ Len(probe'.calls) = Len(probe.calls)
                                        + (IF probe.statements = <<>> THEN 0 ELSE 1)
               /\ probe.statements # <<>>
                    => BodyOf(probe'.calls[Len(probe'.calls)]) = probe.statements
       /\ (probe'.flushes # probe.flushes /\ probe.last = "flush" /\ ~probe.raised)
            => probe'.calls = probe.calls]_vars

\* Two statements were added and flushed as one unit, and a second flush
\* followed with no add in between.
C20_Witness ==
    /\ probe.flushes = 2
    /\ probe.last = "flush"
    /\ ~probe.raised
    /\ Len(probe.calls) = 1
    /\ Len(probe.added) = 2
    /\ probe.added[1] # probe.added[2]
    /\ probe.statements = <<>>

(***************************************************************************)
(* SpecBuild: the batch main() builds in one run, from the id maps to the  *)
(* last normalizer, for the normalizers of factions, subclasses,           *)
(* characters, resources, codes, howlkins and gear.  The state keeps the   *)
(* statements each normalizer added, the warnings and the error raised.    *)
(***************************************************************************)
SBlade == [name |-> "Blade", class |-> "Mage", tier |-> 1, bonuses |-> <<"b1", "", "b2">>]

SRune == [name |-> "Rune", class |-> "Guardian", tier |-> 1]

\* Aria names a subclass of her class, one of another class and one that is
\* in no file, and a faction that is in no file.
CAriaLinked == [CAria EXCEPT !.factions = <<"Wild Spirit", "Shadow">>] @@
               [subclasses |-> <<"Blade", "Rune", "Ghost">>]

KMap == [code |-> "MAP", reward |-> <<[key |-> "Gold", value |-> 100],
                                      [key |-> "Gem", value |-> 7]>>]

KMapReordered == [code |-> "MAP", reward |-> <<[key |-> "Gem", value |-> 7],
                                               [key |-> "Gold", value |-> 100]>>]

HFang == [name |-> "Fang", quality |-> "SR", passive_effects |-> <<"", "roar">>,
          basic_stats |-> <<[key |-> "hp", value |-> 5], [key |-> "ATK", value |-> 3],
                            [key |-> "Def", value |-> 2]>>]

HFangReordered == [HFang EXCEPT !.basic_stats =
                      <<[key |-> "Def", value |-> 2], [key |-> "hp", value |-> 5],
                        [key |-> "ATK", value |-> 3]>>]

GHelm == [name |-> "Helm", type |-> "Headgear", quality |-> "SR", set |-> "Sun",
          set_bonus |-> [quantity |-> 2, description |-> "warm"]]

GFang == [name |-> "Fang", type |-> "Weapon", quality |-> "SR", set |-> "Moon"]

GBare == [name |-> "Blade", type |-> "Weapon", quality |-> "R"]

GSSun == [name |-> "Sun", set_bonus |-> [quantity |-> 4, description |-> "hot"]]

BuildDocs(f, a, s, c, r, k, h, g, gs) ==
    [factions |-> f, artifacts |-> a, subclasses |-> s, characters |-> c,
     resources |-> r, codes |-> k, howlkins |-> h, gear |-> g, gear_sets |-> gs]

\* The documents of a run: one group of files varies at a time.
BuildInputs ==
    {BuildDocs(f, a, s, c, <<RGold>>, <<KWelcome>>, <<HFang>>, <<GHelm>>, <<GSSun>>) :
        f \in {<<FEcho, FWild>>, <<FWild, FEcho>>, <<FWild>>},
        a \in {<<>>, Artifacts},
        s \in {<<>>, <<SBlade>>, <<SRune, SBlade>>},
        c \in {<<CAria>>, <<CAriaLinked>>, <<CBram, CAriaLinked>>}}
    \cup {BuildDocs(<<FEcho>>, Artifacts, <<>>, <<>>, r, k, <<>>, <<>>, <<>>) :
            r \in {<<RGold, RGem>>, <<RGem, RAnon, RGold>>},
            k \in {<<KWelcome>>, <<KMap>>, <<KMapReordered>>, <<KLost>>, <<KMap, KWelcome>>}}
    \cup {BuildDocs(<<FEcho>>, Artifacts, <<>>, <<>>, <<RGold>>, <<>>, h, g, gs) :
            h \in {<<>>, <<HFang>>, <<HFangReordered>>},
            g \in {<<>>, <<GHelm>>, <<GFang, GHelm, GBare>>},
            gs \in {<<>>, <<GSSun>>}}
    \cup {BuildDocs(f, Artifacts, <<>>, <<CAria, CAriaEdited>>, <<RGold>>, <<KWelcome>>,
                    <<>>, <<>>, <<>>) :
            f \in {<<FWild, FEcho>>, <<FEcho>>}}

\* The syncers dict of main(), in its order, for the normalizers of the model.
SyncersCharactersFirst ==
    <<"characters", "factions", "subclasses", "resources", "codes", "howlkins", "gear">>

Syncers ==
    <<"factions", "subclasses", "characters", "resources", "codes", "howlkins", "gear">>

BuildTargets == {"all"} \cup {Syncers[k] : k \in 1..Len(Syncers)}

\* The outcome of one entry of the syncers dict.
BuildOut(name) ==
    LET target == probe.target
    IN CASE name = "factions" ->
              sync_factions(json_cache(target, "factions"), json_cache(target, "artifacts"),
                            1, hashesFile, target = "factions",
                            json_cache(target, "characters"), db)
         [] name = "subclasses" ->
              sync_subclasses(json_cache(target, "subclasses"), 1, hashesFile, db)
         [] name = "characters" ->
              sync_characters(json_cache(target, "characters"),
                              json_cache(target, "factions"), 1, hashesFile, db,
                              build_subclass_maps(json_cache(target, "subclasses")),
                              probe.has_subclass_id_column)
         [] name = "resources" ->
              sync_resources(json_cache(target, "resources"), schema.tables, schema.crCols,
                             1, hashesFile, target = "resources", db)
         [] name = "codes" ->
              sync_codes(json_cache(target, "codes"), schema.tables, schema.crCols,
                         build_resource_id_map(json_cache(target, "resources")),
                         1, hashesFile, db)
         [] name = "howlkins" ->
              sync_howlkins(json_cache(target, "howlkins"), 1, hashesFile, db)
         [] OTHER ->
              sync_gear(json_cache(target, "gear"), json_cache(target, "gear_sets"),
                        1, hashesFile, db)

\* The rows an earlier sync of factions, characters, resources and codes left
\* (nothing when sync_codes raised).
EarlierRows(docs) ==
    LET codes == sync_codes(docs.codes, AllTables, {"resource_id"},
                            build_resource_id_map(docs.resources), 1, <<>>, EmptyStore)
        batch == sync_factions(docs.factions, docs.artifacts, 1, <<>>, FALSE, <<>>,
                               EmptyStore).batch
                 \o sync_characters(docs.characters, docs.factions, 1, <<>>, EmptyStore,
                                    build_subclass_maps(docs.subclasses), TRUE).batch
                 \o sync_resources(docs.resources, AllTables, {"resource_id"}, 1, <<>>,
                                   FALSE, EmptyStore).batch
                 \o codes.batch
    IN IF codes.error # "" THEN EmptyStore ELSE ApplyBatch(EmptyStore, batch)

InitBuild ==
    /\ json \in BuildInputs
    /\ \E target \in BuildTargets, col \in BOOLEAN :
         probe = [target |-> target, has_subclass_id_column |-> col,
                  todo |-> IF target = "all" THEN Syncers ELSE <<target>>,
                  parts |-> <<>>, warnings |-> 0, error |-> ""]
    /\ db \in {EmptyStore, EarlierRows(json)}
    /\ hashesFile = <<>>
    /\ schema = ModernSchema
    /\ commits = [n |-> 0, head |-> [schema |-> ModernSchema, db |-> db], pushed |-> 0]
    /\ run = NoRun("idle", 0, "all", FALSE, NoSnapshot, <<"", "">>)
    /\ sent = <<>>
    /\ runs = 0
    /\ edits = 0

\* main() calls the next syncer: its statements join the batch, or its
\* exception ends the run.
Build(name) ==
    /\ probe.error = ""
    /\ probe.todo # <<>>
    /\ Head(probe.todo) = name
    /\ LET out == BuildOut(name)
       IN probe' = IF out.error # ""
                     THEN [probe EXCEPT !.error = out.error]
                     ELSE [probe EXCEPT
                             !.todo = Tail(@),
                             !.parts = Append(@, [category |-> name, batch |-> out.batch,
                                                  warnings |-> out.warnings]),
                             !.warnings = @ + out.warnings]
    /\ UNCHANGED runVars

BuildFactions == Build("factions")

BuildSubclasses == Build("subclasses")

BuildCharacters == Build("characters")

BuildResources == Build("resources")

BuildCodes == Build("codes")

BuildHowlkins == Build("howlkins")

BuildGear == Build("gear")

NextBuild ==
    \/ BuildFactions
    \/ BuildSubclasses
    \/ BuildCharacters
    \/ BuildResources
    \/ BuildCodes
    \/ BuildHowlkins
    \/ BuildGear

SpecBuild == InitBuild /\ [][NextBuild]_vars

\* The batch as flush() finds it: the statements of every syncer, in call order.
RECURSIVE BatchOf(_)
BatchOf(parts) ==
    IF parts = <<>> THEN <<>> ELSE Head(parts).batch \o BatchOf(Tail(parts))

\* Every syncer of the run has returned: batch.flush() is next.
Built == probe.todo = <<>> /\ probe.error = ""


(***************************************************************************)
(* Claims about the batch of one run, checked under SpecBuild.             *)
(***************************************************************************)
\* The foreign keys of the tables of the model: <<table, column, table referenced>>.
ForeignKeys ==
    {<<"faction_recommended_artifacts", "faction_id", "factions">>,
     <<"character_factions", "faction_id", "factions">>,
     <<"character_factions", "character_id", "characters">>,
     <<"skills", "character_id", "characters">>,
     <<"character_subclasses", "character_id", "characters">>,
     <<"character_subclasses", "subclass_id", "subclasses">>,
     <<"subclass_character_classes", "subclass_id", "subclasses">>,
     <<"subclass_bonuses", "subclass_id", "subclasses">>,
     <<"code_rewards", "code_id", "codes">>,
     <<"code_rewards", "resource_id", "resources">>,
     <<"howlkin_stats", "howlkin_id", "howlkins">>,
     <<"howlkin_passive_effects", "howlkin_id", "howlkins">>,
     <<"gear", "set_id", "gear_sets">>}

\* The id a row's foreign-key column holds; 0 for NULL or a missing column.
KeyValue(table, row, column) ==
    IF column \notin DOMAIN row THEN 0
    ELSE IF <<table, column>> \in {<<"code_rewards", "resource_id">>,
                                   <<"character_subclasses", "subclass_id">>,
                                   <<"gear", "set_id">>}
      THEN (IF row[column].t = "int" THEN row[column].v ELSE 0)
      ELSE row[column]

\* Within one category's statements: the DELETE of a referencing table comes
\* before the DELETE of the table it references, and every DELETE before
\* every INSERT.
DeletesInOrder(batch) ==
    /\ \A fk \in ForeignKeys : \A i, j \in 1..Len(batch) :
         (/\ batch[i] = Delete(fk[1])
          /\ batch[j] = Delete(fk[3])) => i < j
    /\ \A i, j \in 1..Len(batch) :
         (batch[i].op = "DELETE" /\ batch[j].op = "INSERT") => i < j

\* In a batch: a row that a foreign key of another row names is inserted
\* before that row.
ParentsFirst(batch) ==
    \A fk \in ForeignKeys : \A i, j \in 1..Len(batch) :
        (/\ batch[j].op = "INSERT" /\ batch[j].table = fk[1]
         /\ batch[i].op = "INSERT" /\ batch[i].table = fk[3]
         /\ KeyValue(fk[1], batch[j].row, fk[2]) = batch[i].row.id) => i < j

\* C21: in the batch of every run, each category's deletes go from referencing
\* tables to referenced tables and come before its inserts; in a full sync a
\* referenced parent row is inserted before any row that references it.
C21_ForeignKeyOrder ==
    /\ \A k \in 1..Len(probe.parts) : DeletesInOrder(probe.parts[k].batch)
    /\ (probe.target = "all" /\ Built) => ParentsFirst(BatchOf(probe.parts))

\* A full sync is built whose batch links a character to a faction and to a
\* subclass, a reward to a resource and a gear item to its set.
C21_Witness ==
    /\ probe.target = "all"
    /\ Built
    /\ \A t \in {"character_factions", "code_rewards", "character_subclasses", "gear"} :
         \E fk \in ForeignKeys :
            /\ fk[1] = t
            /\ fk[3] \in {"factions", "resources", "subclasses", "gear_sets"}
            /\ \E i, j \in 1..Len(BatchOf(probe.parts)) :
                 /\ BatchOf(probe.parts)[j].op = "INSERT"
                 /\ BatchOf(probe.parts)[j].table = fk[1]
                 /\ BatchOf(probe.parts)[i].op = "INSERT"
                 /\ BatchOf(probe.parts)[i].table = fk[3]
                 /\ KeyValue(fk[1], BatchOf(probe.parts)[j].row, fk[2])
                      = BatchOf(probe.parts)[i].row.id

\* The statements one normalizer added in this run (none before it ran).
PartOf(category) ==
    IF \E k \in 1..Len(probe.parts) : probe.parts[k].category = category
      THEN probe.parts[CHOOSE k \in 1..Len(probe.parts) : probe.parts[k].category = category]
      ELSE [category |-> "", batch |-> <<>>, warnings |-> 0]

Ran(category) == PartOf(category).category = category

CountInserts(batch, table) == Len(ParentInserts(batch, table))

\* The names in a document.
NamesIn(doc) == {Get(doc[k], "name", "") : k \in 1..Len(doc)} \ {""}

\* The references of the named entities of a document: <<entity, position>>
\* for every non-empty name in the list-valued field.
References(doc, field) ==
    {<<i, k>> \in (1..Len(doc)) \X (1..3) :
        /\ Get(doc[i], "name", "") # ""
        /\ k <= Len(Get(doc[i], field, <<>>))
        /\ Get(doc[i], field, <<>>)[k] # ""}

\* The references whose name is not in the category they point at.
Unresolved_(doc, field, names) ==
    {ref \in References(doc, field) : doc[ref[1]][field][ref[2]] \notin names}

BuildCharactersDoc == json_cache(probe.target, "characters")

BuildFactionsDoc == json_cache(probe.target, "factions")

UnknownFactionRefs ==
    Unresolved_(BuildCharactersDoc, "factions", NamesIn(BuildFactionsDoc))

UnknownSubclassRefs ==
    Unresolved_(BuildCharactersDoc, "subclasses",
                NamesIn(json_cache(probe.target, "subclasses")))

UnknownArtifactRefs ==
    Unresolved_(BuildFactionsDoc, "recommended_artifacts",
                NamesIn(json_cache(probe.target, "artifacts")))

\* No normalizer of the run raised on a soft reference: the only errors are
\* those of sync_resources and sync_codes.
SoftNeverFails == probe.error # "" => Head(probe.todo) \in {"resources", "codes"}

OtherClassRefs ==
    {ref \in References(BuildCharactersDoc, "subclasses") \ UnknownSubclassRefs :
        LET c == BuildCharactersDoc[ref[1]]
            classes == build_subclass_maps(json_cache(probe.target, "subclasses")).classes
        IN /\ classes[c.subclasses[ref[2]]] # ""
           /\ classes[c.subclasses[ref[2]]] # Get(c, "character_class", "")}

KeysAscending(doc) ==
    [i \in 1..Len(doc) |->
        [k \in DOMAIN doc[i] |-> IF k \in MapFields THEN SortedByKey(doc[i][k]) ELSE doc[i][k]]]

\* The keys of the nested objects of the named entities of a document.
MapKeys(doc, field, identity) ==
    {<<i, k>> \in (1..Len(doc)) \X (1..3) :
        /\ Get(doc[i], identity, "") # ""
        /\ k <= Len(Get(doc[i], field, <<>>))}

\* C23: map-valued child data gives one child row per key, in ascending key
\* order whatever the key order of the document: the howlkin_stats rows of
\* basic_stats and the code_rewards rows of a reward map are those of the same
\* document written with its keys ascending.
C23_MapRowsInKeyOrder ==
    /\ Ran("howlkins") =>
         LET doc == json_cache(probe.target, "howlkins")
         IN /\ PartOf("howlkins").batch
                 = sync_howlkins(KeysAscending(doc), 1, hashesFile, db).batch
            /\ CountInserts(PartOf("howlkins").batch, "howlkin_stats")
                 = Cardinality(MapKeys(doc, "basic_stats", "name"))
    /\ Ran("codes") =>
         LET doc == json_cache(probe.target, "codes")
         IN /\ PartOf("codes").batch
                 = sync_codes(KeysAscending(doc), schema.tables, schema.crCols,
                              build_resource_id_map(json_cache(probe.target, "resources")),
                              1, hashesFile, db).batch
            /\ CountInserts(PartOf("codes").batch, "code_rewards")
                 >= Cardinality(MapKeys(doc, "reward", "code"))


(***************************************************************************)
(* compute_hash on entities as the JSON loader builds them: a dict keeps   *)
(* the key order of the document, so an entity is a sequence of            *)
(* [key, value] pairs, and the value of a field in MapFields is one too.   *)
(***************************************************************************)
\* json.dumps that writes the keys as it finds them.
json_dumps_unsorted(obj) == obj

\* json.dumps(obj, sort_keys=True): the pairs by key, nested objects too.
json_dumps(obj) ==
    SortedByKey([i \in 1..Len(obj) |->
                   IF obj[i].key \in MapFields
                   THEN [key |-> obj[i].key, value |-> SortedByKey(obj[i].value)]
                   ELSE obj[i]])

\* compute_hash(entity): last_updated and data_hash are stripped, the rest is
\* serialized with sorted keys; the digest is its text.
compute_hash_items(entity) ==
    json_dumps(SelectSeq(entity, LAMBDA p : p.key \notin {"last_updated", "data_hash"}))

\* The pairs an entity of SpecHash is made of.
HashFields ==
    {[key |-> "name", value |-> v] : v \in {"Aria", "Bram"}}
    \cup {[key |-> "last_updated", value |-> v] : v \in {"t1", "t2"}}
    \cup {[key |-> "data_hash", value |-> v] : v \in {"h1"}}
    \cup {[key |-> "reward", value |-> v] :
            v \in {<<[key |-> "Gold", value |-> 100], [key |-> "Gem", value |-> 7]>>,
                   <<[key |-> "Gem", value |-> 7], [key |-> "Gold", value |-> 100]>>,
                   <<[key |-> "Gold", value |-> 100]>>}}

MaxHashFields == 3

\* Entities of up to MaxHashFields pairs, no key twice, in every key order.
HashEntities ==
    {e \in UNION {[1..n -> HashFields] : n \in 0..MaxHashFields} :
        \A i, j \in 1..Len(e) : e[i].key = e[j].key => i = j}

InitHash ==
    /\ \E a, b \in HashEntities :
         probe = [a |-> a, b |-> b, hashed |-> FALSE, digest_a |-> <<>>, digest_b |-> <<>>]
    /\ json = JsonDocs(<<>>, <<>>, <<>>, <<>>)
    /\ hashesFile = <<>>
    /\ schema = ModernSchema
    /\ db = EmptyStore
    /\ commits = [n |-> 0, head |-> [schema |-> ModernSchema, db |-> EmptyStore],
                  pushed |-> 0]
    /\ run = NoRun("idle", 0, "all", FALSE, NoSnapshot, <<"", "">>)
    /\ sent = <<>>
    /\ runs = 0
    /\ edits = 0

\* compute_hash is applied to both entities.
Hash ==
    /\ ~probe.hashed
    /\ probe' = [probe EXCEPT !.hashed = TRUE,
                              !.digest_a = compute_hash_items(probe.a),
                              !.digest_b = compute_hash_items(probe.b)]
    /\ UNCHANGED runVars

NextHash == Hash

SpecHash == InitHash /\ [][NextHash]_vars

\* A JSON object as the mapping it denotes, key order forgotten.
AsMapping(obj) ==
    [k \in {obj[i].key : i \in 1..Len(obj)} |->
        (CHOOSE p \in {obj[i] : i \in 1..Len(obj)} : p.key = k).value]

\* What an entity says apart from last_updated and data_hash.
Content(entity) ==
    LET kept == SelectSeq(entity, LAMBDA p : p.key \notin {"last_updated", "data_hash"})
        flat == [i \in 1..Len(kept) |->
                   IF kept[i].key \in MapFields
                   THEN [key |-> kept[i].key, value |-> AsMapping(kept[i].value)]
                   ELSE kept[i]]
    IN AsMapping(flat)

\* C24: compute_hash gives two entities the same digest when they differ only
\* in the order of their keys (nested objects included) or in last_updated /
\* data_hash (their values or their presence), and different digests when
\* any other field differs.
C24_HashStability ==
    probe.hashed => ((probe.digest_a = probe.digest_b) <=> (Content(probe.a) = Content(probe.b)))

\* Two entities that differ in key order, nested key order and the volatile
\* fields get one digest.
C24_Witness ==
    /\ probe.hashed
    /\ probe.a = <<[key |-> "name", value |-> "Aria"],
                   [key |-> "reward", value |-> <<[key |-> "Gold", value |-> 100],
                                                   [key |-> "Gem", value |-> 7]>>],
                   [key |-> "last_updated", value |-> "t1"]>>
    /\ probe.b = <<[key |-> "reward", value |-> <<[key |-> "Gem", value |-> 7],
                                                   [key |-> "Gold", value |-> 100]>>],
                   [key |-> "data_hash", value |-> "h1"],
                   [key |-> "name", value |-> "Aria"]>>
    /\ probe.digest_a = probe.digest_b


(***************************************************************************)
(* The external calls of main() from batch.flush() on, one step per call:  *)
(* dolt sql (the batch), dolt add, dolt commit, dolt push, dolt pull.      *)
(* probe holds the arguments, the position in main() and the calls made.   *)
(***************************************************************************)
\* What a dolt process can end with: returncode and the text it wrote.
ProcessResults ==
    {[returncode |-> 0, stderr |-> ""]}
    \cup {[returncode |-> 1, stderr |-> text] :
            text \in {"nothing to commit", "no changes added to commit",
                      "non-fast-forward", "failed to push some refs", "fatal"}}

\* dolt_cmd(*args): a non-zero exit raises SyncError carrying stderr, unless
\* the output says there was nothing to commit.
dolt_cmd(args, result) ==
    IF result.returncode # 0
       /\ result.stderr \notin {"nothing to commit", "no changes added to commit"}
    THEN [cmd |-> args, raised |-> TRUE, err |-> result.stderr]
    ELSE [cmd |-> args, raised |-> FALSE, err |-> ""]

\* A push that is retried whatever it failed with.
remote_is_ahead_always(err) == TRUE

\* "non-fast-forward" in err or "failed to push some refs" in err
remote_is_ahead(err) == err \in {"non-fast-forward", "failed to push some refs"}

push_args(force) == IF force THEN "push --force" ELSE "push"

InitPush ==
    /\ \E dry_run, push, force \in BOOLEAN, target \in {"all", "factions"} :
         probe = [pc |-> "flush", dry_run |-> dry_run, push |-> push, force |-> force,
                  target |-> target, calls |-> <<>>, saved |-> FALSE, exit |-> 0]
    /\ json = JsonDocs(<<>>, <<>>, <<>>, <<>>)
    /\ hashesFile = <<>>
    /\ schema = ModernSchema
    /\ db = EmptyStore
    /\ commits = [n |-> 0, head |-> [schema |-> ModernSchema, db |-> EmptyStore],
                  pushed |-> 0]
    /\ run = NoRun("idle", 0, "all", FALSE, NoSnapshot, <<"", "">>)
    /\ sent = <<>>
    /\ runs = 0
    /\ edits = 0

\* main() after a call: the next position, or the exit of the process when
\* the call raised (SyncError inside the try block: exit 1; outside: traceback).
AfterCall(call, next) ==
    [probe EXCEPT !.calls = Append(@, call),
                  !.pc = IF call.raised THEN "failed" ELSE next,
                  !.exit = IF call.raised THEN 1 ELSE 0]

\* batch.flush(), then the dry-run return or save_hashes(merged).
PushFlush ==
    /\ probe.pc = "flush"
    /\ \E result \in ProcessResults :
         LET call == dolt_cmd("sql", result)
             after == AfterCall(call, IF probe.dry_run THEN "done" ELSE "add")
         IN probe' = [after EXCEPT !.saved = ~call.raised /\ ~probe.dry_run]
    /\ UNCHANGED runVars

\* dolt_cmd("add", ".")
PushAdd ==
    /\ probe.pc = "add"
    /\ \E result \in ProcessResults :
         probe' = AfterCall(dolt_cmd("add .", result), "commit")
    /\ UNCHANGED runVars

\* dolt_cmd("commit", "-m", msg), then the end of main() without --push.
PushCommit ==
    /\ probe.pc = "commit"
    /\ \E result \in ProcessResults :
         probe' = AfterCall(dolt_cmd("commit -m", result),
                            IF probe.push THEN "push" ELSE "done")
    /\ UNCHANGED runVars

\* dolt_cmd(*push_args) and its except clause.
PushPush ==
    /\ probe.pc = "push"
    /\ \E result \in ProcessResults :
         LET call == dolt_cmd(push_args(probe.force), result)
         IN probe' = IF call.raised /\ remote_is_ahead(call.err)
                     THEN [probe EXCEPT !.calls = Append(@, call), !.pc = "pull"]
                     ELSE AfterCall(call, "done")
    /\ UNCHANGED runVars

\* dolt_cmd("pull") in the except clause.
PushPull ==
    /\ probe.pc = "pull"
    /\ \E result \in ProcessResults :
         probe' = AfterCall(dolt_cmd("pull", result), "repush")
    /\ UNCHANGED runVars

\* dolt_cmd(*push_args) in the except clause.
PushAgain ==
    /\ probe.pc = "repush"
    /\ \E result \in ProcessResults :
         probe' = AfterCall(dolt_cmd(push_args(probe.force), result), "done")
    /\ UNCHANGED runVars

NextPush ==
    \/ PushFlush
    \/ PushAdd
    \/ PushCommit
    \/ PushPush
    \/ PushPull
    \/ PushAgain

SpecPush == InitPush /\ [][NextPush]_vars

\* The calls of the run that are dolt push.
PushCalls == {i \in 1..Len(probe.calls) : probe.calls[i].cmd \in {"push", "push --force"}}

\* C25 as stated: no call is made after a call that failed; the failed call
\* is the last one of the run and the run has ended.
C25_NoRetry ==
    \A i \in 1..Len(probe.calls) :
        probe.calls[i].raised => i = Len(probe.calls) /\ probe.pc = "failed"

\* C25, amended: a call that failed is the last call of the run and ends it,
\* except the first dolt push when its error says the remote is ahead: that
\* push is followed by one dolt pull and one more dolt push, neither of which
\* is retried.  No other command is issued twice.
C25_OnlyPushRetried ==
    /\ \A i \in 1..Len(probe.calls) :
          probe.calls[i].raised =>
             \/ i = Len(probe.calls) /\ probe.pc = "failed"
             \/ /\ i \in PushCalls
                /\ \A q \in PushCalls : i <= q
                /\ probe.calls[i].err \in {"non-fast-forward", "failed to push some refs"}
                /\ Len(probe.calls) <= i + 2
                /\ i + 1 <= Len(probe.calls) => probe.calls[i + 1].cmd = "pull"
                /\ i + 2 <= Len(probe.calls) => i + 2 \in PushCalls
                /\ i = Len(probe.calls) => probe.pc = "pull"
    /\ Cardinality(PushCalls) <= 2
    /\ \A i, j \in 1..Len(probe.calls) :
          probe.calls[i].cmd = probe.calls[j].cmd /\ i # j => {i, j} \subseteq PushCalls
    /\ probe.pc = "failed" <=> (probe.calls # <<>> /\ probe.calls[Len(probe.calls)].raised
                                 /\ probe.pc # "pull")

\* A push refused because the remote is ahead, pulled and pushed again, and
\* the run completes.
C25_Witness ==
    /\ probe.pc = "done"
    /\ Len(probe.calls) = 6
    /\ probe.calls[4].raised
    /\ probe.calls[5].cmd = "pull"
    /\ probe.calls[6].cmd = "push --force"
    /\ ~probe.calls[6].raised


\* The ids the factions part gives to the faction of a name.
AssignedFactionIds(name) ==
    {r.id : r \in {q \in Inserted(PartOf("factions").batch, "factions") : q.name = name}}

\* The character rows of the store whose characters.json entry lists factions
\* that factions.json has: <<row, entry, position>>.
LinksDue ==
    {l \in (1..Len(db.characters)) \X (1..Len(json.characters)) \X (1..2) :
        /\ Get(json.characters[l[2]], "name", "") = db.characters[l[1]].name
        /\ l[3] <= Len(Get(json.characters[l[2]], "factions", <<>>))
        /\ AssignedFactionIds(json.characters[l[2]].factions[l[3]]) # {}}

\* C26: the batch of --target factions holds, for every character row of the
\* store and every faction that character lists in characters.json and
\* factions.json has, a character_factions row with the character's existing
\* id and the id this run gives to the faction.
C26_FactionsOnlyRelinks ==
    (probe.target = "factions" /\ Ran("factions")) =>
        \A l \in LinksDue :
            \E r \in Inserted(PartOf("factions").batch, "character_factions") :
                /\ r.character_id = db.characters[l[1]].id
                /\ r.faction_id \in AssignedFactionIds(json.characters[l[2]].factions[l[3]])
                /\ r.sort_order = l[3]


(***************************************************************************)
(* backend/bump_timestamps.py and backend/normalize_data.py on             *)
(* resources.json: the entries of the working file are compared with the   *)
(* entries of the file at HEAD.                                            *)
(***************************************************************************)
\* entry.get(key) of a missing key is None; as a dict key it is this name.
NoneKey == "<None>"

\* _identity_key("resources.json")
identity_key == "name"

\* _without_timestamp(entry)
without_timestamp(entry) == [k \in DOMAIN entry \ {"last_updated"} |-> entry[k]]

\* bump_timestamps._load_committed: {entry.get(key): entry for entry in entries};
\* {} when git show fails.
RECURSIVE bump_load_committed(_, _)
bump_load_committed(entries, acc) ==
    IF entries = <<>> THEN acc
    ELSE bump_load_committed(Tail(entries),
            Put(acc, Get(Head(entries), identity_key, NoneKey), Head(entries)))

\* normalize_data._load_committed: entries whose identity is None are left out.
RECURSIVE normalize_load_committed(_, _)
normalize_load_committed(entries, acc) ==
    IF entries = <<>> THEN acc
    ELSE normalize_load_committed(Tail(entries),
            IF identity_key \in DOMAIN Head(entries)
              THEN Put(acc, Head(entries)[identity_key], Head(entries)) ELSE acc)

\* bump_timestamps.bump_file: the entries it writes and the count it returns.
RECURSIVE bump_loop(_, _, _, _)
bump_loop(entries, i, committed, acc) ==
    IF i > Len(entries) THEN acc
    ELSE LET entry == entries[i]
             identity == Get(entry, identity_key, NoneKey)
             known == identity \in DOMAIN committed
             changed == IF ~known THEN TRUE
                        ELSE without_timestamp(entry) # without_timestamp(committed[identity])
         IN IF known /\ "last_updated" \notin DOMAIN entry
              THEN bump_loop(entries, i + 1, committed,
                             [acc EXCEPT !.entries = Append(@, entry)])
            ELSE IF changed
              THEN bump_loop(entries, i + 1, committed,
                             [entries |-> Append(acc.entries,
                                                 Put(entry, "last_updated", acc.now)),
                              count |-> acc.count + 1, now |-> acc.now])
            ELSE bump_loop(entries, i + 1, committed,
                           [acc EXCEPT !.entries = Append(@, entry)])

bump_file(entries, head, now) ==
    LET committed == IF head.tracked THEN bump_load_committed(head.entries, <<>>) ELSE <<>>
        acc == bump_loop(entries, 1, committed, [entries |-> <<>>, count |-> 0, now |-> now])
    IN [stamped |-> acc.entries, written |-> acc.entries, bumped |-> acc.count]

\* normalize_data.normalize_file: the timestamp loop, then the sort.
RECURSIVE normalize_loop(_, _, _, _)
normalize_loop(entries, i, committed, acc) ==
    IF i > Len(entries) THEN acc
    ELSE LET entry == entries[i]
             matched == identity_key \in DOMAIN entry /\ entry[identity_key] \in DOMAIN committed
             changed == IF ~matched THEN TRUE
                        ELSE without_timestamp(entry)
                               # without_timestamp(committed[entry[identity_key]])
         IN IF changed \/ "last_updated" \notin DOMAIN entry
              THEN normalize_loop(entries, i + 1, committed,
                                  [entries |-> Append(acc.entries,
                                                      Put(entry, "last_updated", acc.now)),
                                   count |-> acc.count + 1, now |-> acc.now])
              ELSE normalize_loop(entries, i + 1, committed,
                                  [acc EXCEPT !.entries = Append(@, entry)])

normalize_file(entries, head, now, do_sort, do_timestamps) ==
    LET should_timestamp == do_timestamps /\ entries # <<>>
        committed == IF head.tracked THEN normalize_load_committed(head.entries, <<>>)
                     ELSE <<>>
        acc == IF should_timestamp
                 THEN normalize_loop(entries, 1, committed,
                                     [entries |-> <<>>, count |-> 0, now |-> now])
                 ELSE [entries |-> entries, count |-> 0, now |-> now]
        sorted == IF do_sort
                    THEN Sorted(acc.entries,
                                [i \in 1..Len(acc.entries) |-> resource_sort_key(acc.entries[i])])
                    ELSE acc.entries
    IN [stamped |-> acc.entries, written |-> sorted, bumped |-> acc.count]

\* Entries of resources.json with and without name and last_updated.
BumpEntries ==
    {RGold, RGold @@ [last_updated |-> 1], RGoldEdited @@ [last_updated |-> 1],
     RAnon, RAnon @@ [last_updated |-> 1], [RAnon EXCEPT !.quality = "SR"] @@ [last_updated |-> 1]}

HeadEntries ==
    {RGold @@ [last_updated |-> 1], RGem @@ [last_updated |-> 2],
     RAnon @@ [last_updated |-> 1], RAnon @@ [last_updated |-> 2]}

MaxBumpEntries == 2

BumpNow == 9

InitBump ==
    /\ \E entries \in UNION {[1..n -> BumpEntries] : n \in 0..MaxBumpEntries},
          committed \in UNION {[1..n -> HeadEntries] : n \in 0..MaxBumpEntries},
          tracked, do_sort, do_timestamps \in BOOLEAN :
         /\ ~tracked => committed = <<>>
         /\ do_sort \/ do_timestamps
         /\ probe = [entries |-> entries,
                     head |-> [tracked |-> tracked, entries |-> committed],
                     do_sort |-> do_sort, do_timestamps |-> do_timestamps,
                     tool |-> "", stamped |-> <<>>, written |-> <<>>, bumped |-> 0]
    /\ json = JsonDocs(<<>>, <<>>, <<>>, <<>>)
    /\ hashesFile = <<>>
    /\ schema = ModernSchema
    /\ db = EmptyStore
    /\ commits = [n |-> 0, head |-> [schema |-> ModernSchema, db |-> EmptyStore],
                  pushed |-> 0]
    /\ run = NoRun("idle", 0, "all", FALSE, NoSnapshot, <<"", "">>)
    /\ sent = <<>>
    /\ runs = 0
    /\ edits = 0

\* python -m backend.bump_timestamps resources.json
BumpFile ==
    /\ probe.tool = ""
    /\ probe.do_timestamps /\ ~probe.do_sort
    /\ LET out == bump_file(probe.entries, probe.head, BumpNow)
       IN probe' = [probe EXCEPT !.tool = "bump_file", !.stamped = out.stamped,
                                 !.written = out.written, !.bumped = out.bumped]
    /\ UNCHANGED runVars

\* python -m backend.normalize_data [--timestamps-only | --sort-only] resources.json
NormalizeFile ==
    /\ probe.tool = ""
    /\ LET out == normalize_file(probe.entries, probe.head, BumpNow,
                                 probe.do_sort, probe.do_timestamps)
       IN probe' = [probe EXCEPT !.tool = "normalize_file", !.stamped = out.stamped,
                                 !.written = out.written, !.bumped = out.bumped]
    /\ UNCHANGED runVars

NextBump ==
    \/ BumpFile
    \/ NormalizeFile

SpecBump == InitBump /\ [][NextBump]_vars

\* C27: when a timestamp tool has compared the file with its committed
\* version, every entry without the identity field carries last_updated = now,
\* whatever the committed version holds.
C27_IdentitylessIsNew ==
    (probe.tool # "" /\ probe.do_timestamps) =>
        \A i \in 1..Len(probe.entries) :
            identity_key \notin DOMAIN probe.entries[i] =>
                /\ "last_updated" \in DOMAIN probe.stamped[i]
                /\ probe.stamped[i].last_updated = BumpNow


\* The rewards the code_rewards rebuild is due: <<codes row, codes.json entry,
\* position in its rewards>> for every code that has a row in the store.
RewardsDue ==
    LET codes == json_cache(probe.target, "codes")
    IN {d \in (1..Len(db.codes)) \X (1..Len(codes)) \X (1..2) :
          /\ Get(codes[d[2]], "code", "") = db.codes[d[1]].name
          /\ d[3] <= Len(rewards_of(codes[d[2]]))
          /\ rewards_of(codes[d[2]])[d[3]].name # ""}

\* C28: --target resources against codes and code_rewards tables completes
\* unless a reward names a resource that resources.json lacks (SyncError), and
\* its batch holds a code_rewards insert for every reward of every code that
\* has a row in codes, with the resource's id of the freshly built id map.
C28_ResourcesOnlyRebuilds ==
    (probe.target = "resources" /\ (probe.error # "" \/ Ran("resources"))) =>
        LET codes == json_cache("resources", "codes")
            resource_ids == build_resource_id_map(json_cache("resources", "resources"))
            missing == \E d \in RewardsDue :
                          rewards_of(codes[d[2]])[d[3]].name \notin DOMAIN resource_ids
        IN /\ probe.error \in {"", "SyncError"}
           /\ probe.error = "SyncError" <=> missing
           /\ Ran("resources") =>
                \A d \in RewardsDue :
                    \E r \in Inserted(PartOf("resources").batch, "code_rewards") :
                        /\ r.code_id = db.codes[d[1]].id
                        /\ r.resource_id
                             = PyInt(resource_ids[rewards_of(codes[d[2]])[d[3]].name])
                        /\ r.quantity = rewards_of(codes[d[2]])[d[3]].quantity


\* The rows of a table of the store, as a set.
RowsOf(table) == {db[table][k] : k \in 1..Len(db[table])}

\* Every code_rewards row names the resources row of the store that carries
\* the name of a reward of its code.
CodeRewardsKeysRight ==
    \A r \in RowsOf("code_rewards") :
        \E c \in RowsOf("codes"), res \in RowsOf("resources"),
           i \in 1..Len(json.codes), k \in 1..2 :
            /\ c.id = r.code_id
            /\ Get(json.codes[i], "code", "") = c.name
            /\ k <= Len(rewards_of(json.codes[i]))
            /\ rewards_of(json.codes[i])[k].name = res.name
            /\ r.resource_id = PyInt(res.id)

\* Every character_factions row names the factions row of the store that
\* carries the name its character lists at that position.
CharacterFactionsKeysRight ==
    \A r \in RowsOf("character_factions") :
        \E c \in RowsOf("characters"), f \in RowsOf("factions"),
           i \in 1..Len(json.characters) :
            /\ c.id = r.character_id
            /\ Get(json.characters[i], "name", "") = c.name
            /\ r.sort_order <= Len(Get(json.characters[i], "factions", <<>>))
            /\ json.characters[i].factions[r.sort_order] = f.name
            /\ r.faction_id = f.id

\* Every character_subclasses row that carries a subclass_id names the
\* subclasses row of the store with the subclass name of the row.
CharacterSubclassesKeysRight ==
    \A r \in RowsOf("character_subclasses") :
        ("subclass_id" \in DOMAIN r /\ r.subclass_id # PyNone) =>
            \E s \in RowsOf("subclasses") :
                r.subclass_id = PyInt(s.id) /\ r.subclass_name = s.name

\* C29: when the batch of a single-category sync has landed, the foreign keys
\* it wrote name the rows of the store that carry the referenced names:
\* code_rewards.resource_id after --target codes, character_factions.faction_id
\* and character_subclasses.subclass_id after --target characters.
C29_SingleCategoryKeysRight ==
    /\ (run.pc = "save" /\ run.target = "codes" /\ "resource_id" \in schema.crCols)
          => CodeRewardsKeysRight
    /\ (run.pc = "save" /\ run.target = "characters")
          => CharacterFactionsKeysRight /\ CharacterSubclassesKeysRight


\* The categories a run normalized from a document that holds an entity.
SyncedWithEntities ==
    {cat \in {SyncersOf(run.target)[k] : k \in 1..Len(SyncersOf(run.target))} :
        json_cache(run.target, cat) # <<>> /\ cat \in schema.tables}

\* C30: once a run that is not a dry run has flushed its batch and saved
\* hashes.json, the entries of every category it synced from a document with
\* at least one entity are exactly the names of the parent rows it inserted,
\* each with the row's data_hash and last_updated; no other entry is left.
C30_HashStoreMatchesRows ==
    run.pc = "commit" =>
        \A cat \in SyncedWithEntities :
            LET entries == Lookup(hashesFile, cat, <<>>)
            IN /\ DOMAIN entries = {r.name : r \in RowsOf(cat)}
               /\ \A r \in RowsOf(cat) :
                     /\ entries[r.name].hash = r.data_hash
                     /\ entries[r.name].ts = r.last_updated

====
